---- MODULE Spec2Model ----
(***************************************************************************)
(* TORD (Topological Oscillator with Repair Delay): a model of             *)
(* governance-panels/models/tord_core.py (TORDModel) and of the            *)
(* perturbation functions of governance-panels/models/tord_jax.py.         *)
(*                                                                         *)
(* Numbers.  The program computes with binary floating point.  The model   *)
(* computes with exact rationals <<n, d>> (d > 0, lowest terms), i.e. the  *)
(* real-number reading of every comparison and arithmetic expression of    *)
(* the source.  sin() is replaced by Bhaskara's rational approximation     *)
(* (same zeros, sign, symmetry and period; error below 0.002).             *)
(***************************************************************************)
EXTENDS Integers, Sequences, FiniteSets, TLC

VARIABLES
    p,           \* TORDModel.p: the parameter set the model was built with
    history_t,   \* TORDModel.history_t
    history_x,   \* TORDModel.history_x
    history_y,   \* TORDModel.history_y
    solver,      \* the one-step scheme standing for scipy's odeint
    pc,          \* "idle", or "odeint" while a simulate() call is integrating
    call,        \* the arguments of the simulate() call in flight or last made
    od,          \* odeint's working state during the call in flight
    ret,         \* what the last simulate() call returned or raised
    ncalls,      \* number of simulate() calls made so far
    dcall,       \* the last direct derivatives() call: arguments and result
    ndirect,     \* number of direct derivatives() calls made so far
    pt,          \* the last perturbation() call (arguments and both results)
    gd,          \* the last _get_delayed() call and the lists it was given
    other,       \* a second thread's simulate() call on the same TORDModel
    jax_p,       \* TORDModelJAX.p: the parameter set of the JAX model
    jax_ret,     \* the last call on the JAX side: arguments and result
    heap,        \* the TORDParameters objects constructed so far
    file,        \* the last save_trajectory() call: arguments, rows written
    trainer      \* the ResonaProductionTrainer: its fields, logs and files

vars == <<p, solver, history_t, history_x, history_y, pc, call, od, ret,
          ncalls, dcall, ndirect, pt, gd, other, jax_p, jax_ret, heap, file,
          trainer>>

\* What the operations on a TORDModel used by one thread leave alone.
ext == <<other, jax_p, jax_ret, heap, file, trainer>>

simvars == <<p, solver, history_t, history_x, history_y, pc, call, od, ret,
             ncalls, dcall, ndirect>>

-----------------------------------------------------------------------------
(* Exact rational arithmetic: the real-number value of float expressions.  *)

AbsInt(n) == IF n < 0 THEN -n ELSE n

RECURSIVE GCD(_, _)
GCD(a, b) == IF b = 0 THEN a ELSE GCD(b, a % b)

Rat(n, d) ==
    LET s == IF d < 0 THEN -1 ELSE 1
        g == GCD(AbsInt(n), AbsInt(d))
    IN  <<(s * n) \div g, (s * d) \div g>>

Zero == Rat(0, 1)
One == Rat(1, 1)

\* Sums over the least common denominator and products with the common
\* factors cancelled first, so that intermediate integers stay small.
RAdd(a, b) ==
    LET g == GCD(a[2], b[2])
    IN  Rat(a[1] * (b[2] \div g) + b[1] * (a[2] \div g), (a[2] \div g) * b[2])
RSub(a, b) == RAdd(a, <<-b[1], b[2]>>)
RMul(a, b) ==
    LET g1 == GCD(AbsInt(a[1]), b[2])
        g2 == GCD(AbsInt(b[1]), a[2])
    IN  Rat((a[1] \div g1) * (b[1] \div g2), (a[2] \div g2) * (b[2] \div g1))
RDiv(a, b) == RMul(a, IF b[1] < 0 THEN <<-b[2], -b[1]>> ELSE <<b[2], b[1]>>)
RNeg(a) == <<-a[1], a[2]>>
RAbs(a) == <<AbsInt(a[1]), a[2]>>
RLt(a, b) == a[1] * b[2] < b[1] * a[2]
RLe(a, b) == a[1] * b[2] <= b[1] * a[2]
RFloor(a) == a[1] \div a[2]

\* sin(2*pi*u) for u in turns: Bhaskara's approximation on each half period.
Bhaskara(v) ==
    LET w == RMul(v, RSub(One, v))
    IN  RDiv(RMul(Rat(16, 1), w), RSub(Rat(5, 1), RMul(Rat(4, 1), w)))

SinTurns(u) ==
    LET OfFraction(f) ==
            IF RLe(f, Rat(1, 2))
            THEN Bhaskara(RMul(Rat(2, 1), f))
            ELSE RNeg(Bhaskara(RMul(Rat(2, 1), RSub(f, Rat(1, 2)))))
    IN  OfFraction(RSub(u, Rat(RFloor(u), 1)))

-----------------------------------------------------------------------------
(* TORDModel.perturbation and the perturbation functions of TORDModelJAX.  *)

recall_times == {Rat(10, 1), Rat(20, 1), Rat(30, 1)}

\* perturbation with the pulse window open at both ends.
perturbation_mut_open(t, pattern) ==
    IF pattern = "pulse"
    THEN IF RLt(Rat(5, 1), t) /\ RLt(t, Rat(11, 2)) THEN One ELSE Zero
    ELSE IF pattern = "recall"
    THEN IF \E tr \in recall_times : RLt(RAbs(RSub(t, tr)), Rat(1, 5))
         THEN Rat(6, 5) ELSE Zero
    ELSE Zero

\* perturbation with the recall window closed at both ends.
perturbation_mut_closed(t, pattern) ==
    IF pattern = "pulse"
    THEN IF RLe(Rat(5, 1), t) /\ RLe(t, Rat(11, 2)) THEN One ELSE Zero
    ELSE IF pattern = "recall"
    THEN IF \E tr \in recall_times : RLe(RAbs(RSub(t, tr)), Rat(1, 5))
         THEN Rat(6, 5) ELSE Zero
    ELSE Zero

\* perturbation falling back to the pulse for a name it does not know.
perturbation_mut_fallback(t, pattern) ==
    IF pattern \in {"stress", "chronic", "recall"}
    THEN Zero
    ELSE IF RLe(Rat(5, 1), t) /\ RLe(t, Rat(11, 2)) THEN One ELSE Zero

perturbation(t, pattern) ==
    IF pattern = "pulse"
    THEN IF RLe(Rat(5, 1), t) /\ RLe(t, Rat(11, 2)) THEN One ELSE Zero
    ELSE IF pattern = "stress"
    THEN LET Positive(s) == IF RLt(Zero, s) THEN RMul(Rat(4, 5), s) ELSE Zero
         IN  Positive(SinTurns(RDiv(t, Rat(12, 1))))
    ELSE IF pattern = "chronic"
    THEN RMul(Rat(3, 10),
              RAdd(One, RMul(Rat(1, 10), SinTurns(RDiv(t, Rat(24, 1))))))
    ELSE IF pattern = "recall"
    THEN IF \E tr \in recall_times : RLt(RAbs(RSub(t, tr)), Rat(1, 5))
         THEN Rat(6, 5) ELSE Zero
    ELSE Zero

perturbation_pulse(t) ==
    IF RLe(Rat(5, 1), t) /\ RLe(t, Rat(11, 2)) THEN One ELSE Zero

perturbation_stress(t) ==
    LET Where(val) == IF RLt(Zero, val) THEN RMul(Rat(4, 5), val) ELSE Zero
    IN  Where(SinTurns(RDiv(t, Rat(12, 1))))

perturbation_chronic(t) ==
    RMul(Rat(3, 10), RAdd(One, RMul(Rat(1, 10), SinTurns(RDiv(t, Rat(24, 1))))))

perturbation_recall(t) ==
    IF \E tr \in recall_times : RLt(RAbs(RSub(t, tr)), Rat(1, 5))
    THEN Rat(6, 5) ELSE Zero

\* get_perturbation_fn(pattern)(t): the dict lookup with its default lambda.
get_perturbation_fn(pattern, t) ==
    CASE pattern = "pulse" -> perturbation_pulse(t)
      [] pattern = "stress" -> perturbation_stress(t)
      [] pattern = "chronic" -> perturbation_chronic(t)
      [] pattern = "recall" -> perturbation_recall(t)
      [] OTHER -> Zero

-----------------------------------------------------------------------------
(* TORDModel._get_delayed.  The result is a record: exc = "" and the       *)
(* value returned, or the exception raised.                                *)

Returned(v) == [exc |-> "", val |-> v]
Raised(e) == [exc |-> e, val |-> Zero]

MinOf(S) == CHOOSE i \in S : \A j \in S : i <= j

\* _get_delayed without the test for a query before the first sample.
_get_delayed_mut_nodefault(t_delay, t_hist, y_hist, default) ==
    IF Len(t_hist) = 0
    THEN Returned(default)
    ELSE LET hits == {i \in 1..(Len(t_hist) - 1) :
                        RLe(t_hist[i], t_delay) /\ RLe(t_delay, t_hist[i + 1])}
         IN  IF hits # {}
             THEN LET Mix(i, alpha) ==
                          Returned(RAdd(RMul(RSub(One, alpha), y_hist[i]),
                                        RMul(alpha, y_hist[i + 1])))
                      At(i) ==
                          IF t_hist[i + 1] = t_hist[i]
                          THEN Raised("ZeroDivisionError")
                          ELSE Mix(i, RDiv(RSub(t_delay, t_hist[i]),
                                           RSub(t_hist[i + 1], t_hist[i])))
                  IN  At(MinOf(hits))
             ELSE Returned(y_hist[Len(y_hist)])

\* _get_delayed returning the earlier sample of the bracketing pair instead
\* of interpolating.
_get_delayed_mut_step(t_delay, t_hist, y_hist, default) ==
    IF Len(t_hist) = 0 \/ RLt(t_delay, t_hist[1])
    THEN Returned(default)
    ELSE LET hits == {i \in 1..(Len(t_hist) - 1) :
                        RLe(t_hist[i], t_delay) /\ RLe(t_delay, t_hist[i + 1])}
         IN  IF hits # {}
             THEN LET At(i) ==
                          IF t_hist[i + 1] = t_hist[i]
                          THEN Raised("ZeroDivisionError")
                          ELSE Returned(y_hist[i])
                  IN  At(MinOf(hits))
             ELSE IF Len(y_hist) > 0
                  THEN Returned(y_hist[Len(y_hist)])
                  ELSE Returned(default)

_get_delayed(t_delay, t_hist, y_hist, default) ==
    IF Len(t_hist) = 0 \/ RLt(t_delay, t_hist[1])
    THEN Returned(default)
    ELSE LET hits == {i \in 1..(Len(t_hist) - 1) :
                        RLe(t_hist[i], t_delay) /\ RLe(t_delay, t_hist[i + 1])}
         IN  IF hits # {}
             THEN LET Mix(i, alpha) ==
                          Returned(RAdd(RMul(RSub(One, alpha), y_hist[i]),
                                        RMul(alpha, y_hist[i + 1])))
                      At(i) ==
                          IF t_hist[i + 1] = t_hist[i]
                          THEN Raised("ZeroDivisionError")
                          ELSE Mix(i, RDiv(RSub(t_delay, t_hist[i]),
                                           RSub(t_hist[i + 1], t_hist[i])))
                  IN  At(MinOf(hits))
             ELSE IF Len(y_hist) > 0
                  THEN Returned(y_hist[Len(y_hist)])
                  ELSE Returned(default)

-----------------------------------------------------------------------------
(* TORDParameters and TORDModel.derivatives.                               *)

\* A parameter set with the given delay and decay rate; the other fields are
\* small rationals so that the arithmetic of a few steps stays exact.
TORDParameters(eta, lambda_) ==
    [omega_x |-> One, omega_y |-> One, gamma_x |-> One, gamma_y |-> Zero,
     alpha |-> One, beta |-> One, kappa |-> One, lambda_ |-> lambda_,
     eta |-> eta, mu |-> One]

\* derivatives() coupling dv_x/dt to the current y instead of the delayed one.
derivatives_mut_nodelay(pp, ht, hx, hy, state, t, u_pattern) ==
    LET x == state[1]
        v_x == state[2]
        y == state[3]
        v_y == state[4]
        theta == state[5]
        u_t == perturbation(t, u_pattern)
    IN  [ht |-> Append(ht, t), hx |-> Append(hx, x), hy |-> Append(hy, y),
         exc |-> "",
         val |-> <<v_x,
                   RAdd(RSub(RSub(RMul(RNeg(RMul(pp.omega_x, pp.omega_x)), x),
                                  RMul(pp.gamma_x, v_x)),
                             RMul(pp.alpha, y)),
                        RMul(pp.mu, u_t)),
                   v_y,
                   RAdd(RSub(RMul(RNeg(RMul(pp.omega_y, pp.omega_y)), y),
                             RMul(pp.gamma_y, v_y)),
                        RMul(pp.beta, x)),
                   RSub(RMul(pp.kappa, RMul(x, x)), RMul(pp.lambda_, theta))>>,
         y_delayed |-> y]

\* derivatives() with the repair feedback added to dv_x/dt instead of subtracted.
derivatives_mut_feedback(pp, ht, hx, hy, state, t, u_pattern) ==
    LET x == state[1]
        v_x == state[2]
        y == state[3]
        v_y == state[4]
        theta == state[5]
        u_t == perturbation(t, u_pattern)
        Rest(y_delayed) ==
            [ht |-> Append(ht, t), hx |-> Append(hx, x), hy |-> Append(hy, y),
             exc |-> y_delayed.exc,
             val |-> IF y_delayed.exc = ""
                     THEN <<v_x,
                            RAdd(RAdd(RSub(RMul(RNeg(RMul(pp.omega_x, pp.omega_x)), x),
                                           RMul(pp.gamma_x, v_x)),
                                      RMul(pp.alpha, y_delayed.val)),
                                 RMul(pp.mu, u_t)),
                            v_y,
                            RAdd(RSub(RMul(RNeg(RMul(pp.omega_y, pp.omega_y)), y),
                                      RMul(pp.gamma_y, v_y)),
                                 RMul(pp.beta, x)),
                            RSub(RMul(pp.kappa, RMul(x, x)),
                                 RMul(pp.lambda_, theta))>>
                     ELSE <<>>,
             y_delayed |-> y_delayed.val]
    IN  Rest(_get_delayed(RSub(t, pp.eta), Append(ht, t), Append(hy, y), y))

\* derivatives() making the delayed lookup before it records the sample.
derivatives_mut_appendlate(pp, ht, hx, hy, state, t, u_pattern) ==
    LET x == state[1]
        v_x == state[2]
        y == state[3]
        v_y == state[4]
        theta == state[5]
        u_t == perturbation(t, u_pattern)
        Rest(y_delayed) ==
            [ht |-> Append(ht, t), hx |-> Append(hx, x), hy |-> Append(hy, y),
             exc |-> y_delayed.exc,
             val |-> IF y_delayed.exc = ""
                     THEN <<v_x,
                            RAdd(RSub(RSub(RMul(RNeg(RMul(pp.omega_x, pp.omega_x)), x),
                                           RMul(pp.gamma_x, v_x)),
                                      RMul(pp.alpha, y_delayed.val)),
                                 RMul(pp.mu, u_t)),
                            v_y,
                            RAdd(RSub(RMul(RNeg(RMul(pp.omega_y, pp.omega_y)), y),
                                      RMul(pp.gamma_y, v_y)),
                                 RMul(pp.beta, x)),
                            RSub(RMul(pp.kappa, RMul(x, x)),
                                 RMul(pp.lambda_, theta))>>
                     ELSE <<>>,
             y_delayed |-> y_delayed.val]
    IN  Rest(_get_delayed(RSub(t, pp.eta), ht, hy, y))

\* derivatives(state, t, u_pattern) on a model whose history lists are
\* ht, hx, hy: the lists after the call, and the vector returned (or the
\* exception that left the call).
derivatives(pp, ht, hx, hy, state, t, u_pattern) ==
    LET x == state[1]
        v_x == state[2]
        y == state[3]
        v_y == state[4]
        theta == state[5]
        ht2 == Append(ht, t)
        hx2 == Append(hx, x)
        hy2 == Append(hy, y)
        u_t == perturbation(t, u_pattern)
        dv_x_dt(y_delayed) ==
            RAdd(RSub(RSub(RMul(RNeg(RMul(pp.omega_x, pp.omega_x)), x),
                           RMul(pp.gamma_x, v_x)),
                      RMul(pp.alpha, y_delayed)),
                 RMul(pp.mu, u_t))
        dv_y_dt == RAdd(RSub(RMul(RNeg(RMul(pp.omega_y, pp.omega_y)), y),
                             RMul(pp.gamma_y, v_y)),
                        RMul(pp.beta, x))
        dtheta_dt == RSub(RMul(pp.kappa, RMul(x, x)), RMul(pp.lambda_, theta))
        Rest(y_delayed) ==
            [ht |-> ht2, hx |-> hx2, hy |-> hy2,
             exc |-> y_delayed.exc,
             val |-> IF y_delayed.exc = ""
                     THEN <<v_x, dv_x_dt(y_delayed.val), v_y, dv_y_dt, dtheta_dt>>
                     ELSE <<>>,
             y_delayed |-> y_delayed.val]
    IN  Rest(_get_delayed(RSub(t, pp.eta), ht2, hy2, y))

-----------------------------------------------------------------------------
(* Bounds of the model and the inputs drawn within them.                   *)

MaxSpan == 1        \* t_span endpoints are 5, 5+1, ..., 5+MaxSpan
MaxPoints == 3      \* n_points is drawn from -1..MaxPoints
MaxRuns == 2        \* simulate() calls per behaviour
MaxDirect == 1      \* direct derivatives() calls per behaviour
MaxTick == 320      \* perturbation() is called at t = (k - 10)/TicksPerUnit
TicksPerUnit == 10
MaxHist == 3        \* length of the lists handed to _get_delayed()
MaxTime == 2        \* their timestamps are 0..MaxTime

None == <<>>        \* Python's None for an Optional argument

DefaultInitialState == <<Rat(1, 10), Zero, Rat(1, 20), Zero, One>>

SpanTimes == {Rat(5 + k, 1) : k \in 0..MaxSpan}
NPoints == -1..MaxPoints
InitialStates == {None, <<Zero, One, Rat(2, 1), Zero, Zero>>}
SimPatterns == {"pulse", "none"}
Patterns == {"pulse", "stress", "chronic", "recall", "none"}
KnownPatterns == {"pulse", "stress", "chronic", "recall"}
UnknownPatterns == (Patterns \cup SimPatterns) \ KnownPatterns
EtaChoices == {Zero, Rat(1, 2), One}
Solvers == {"euler", "recheck"}
DirectStates == {<<One, Zero, Rat(7, 1), Zero, One>>}
DirectTimes == {Rat(4, 1)}
DirectPatterns == {"pulse"}
YValues == {Zero, One}

-----------------------------------------------------------------------------
(* TORDModel.simulate.  numpy.linspace builds the grid; scipy's odeint is  *)
(* a library routine outside the repository, so it is represented by its   *)
(* contract: it calls derivatives(y, t, u_pattern) some number of times    *)
(* and returns one row per grid point, the first being initial_state, as   *)
(* a deterministic function of its arguments and of what the callback      *)
(* returned.  The variable solver fixes which one-step scheme stands for   *)
(* it in a behaviour: "euler" evaluates once per step, in time order;      *)
(* "recheck" evaluates at both ends of every step, so a timestamp is       *)
(* visited twice, as multi-stage and iterating solvers do.                 *)

VAdd(a, b) == [i \in 1..Len(a) |-> RAdd(a[i], b[i])]
VScale(c, a) == [i \in 1..Len(a) |-> RMul(c, a[i])]

\* linspace with endpoint=False.
linspace_mut_noendpoint(start, stop, num) ==
    [i \in 1..num |->
        RAdd(start, RMul(Rat(i - 1, 1), RDiv(RSub(stop, start), Rat(num, 1))))]

linspace(start, stop, num) ==
    LET div == num - 1
        step == IF div > 0 THEN RDiv(RSub(stop, start), Rat(div, 1))
                ELSE RSub(stop, start)
    IN  [i \in 1..num |->
            IF num > 1 /\ i = num THEN stop
            ELSE RAdd(start, RMul(Rat(i - 1, 1), step))]

NoCall == [t_span |-> <<Zero, Zero>>, n_points |-> 0,
           initial_state |-> None, u_pattern |-> ""]
OdIdle == [t |-> <<>>, k |-> 0, y |-> <<>>, stage |-> 0, k1 |-> <<>>,
           states |-> <<>>, nevals |-> 0, stale |-> FALSE]
NoRet == [status |-> "none", exc |-> "", t |-> <<>>, states |-> <<>>]
NoDcall == [called |-> FALSE, state |-> <<>>, t |-> Zero, u_pattern |-> "",
            exc |-> "", val |-> <<>>, y_delayed |-> Zero]
NoPt == [called |-> FALSE, t |-> Zero, pattern |-> "", ref |-> Zero, jax |-> Zero]
NoGd == [t_hist |-> <<>>, y_hist |-> <<>>, called |-> FALSE, t_delay |-> Zero,
         default |-> Zero, res |-> Returned(Zero)]
NoOther == [pc |-> "idle", call |-> NoCall, od |-> OdIdle, ret |-> NoRet,
            ncalls |-> 0]
NoFile == [called |-> FALSE, t |-> <<>>, states |-> <<>>, exc |-> "",
           rows |-> <<>>]
NoJaxRet == [op |-> "", exc |-> "", args |-> <<>>, val |-> <<>>, grads |-> <<>>]

RaisedRet(e) == [status |-> "raised", exc |-> e, t |-> <<>>, states |-> <<>>]

\* odeint's working state when simulate() hands it the grid t and y0; stale
\* tells whether the instance held samples when simulate() was entered.
odeint_start(t, y0, stale) ==
    [t |-> t, k |-> 1, y |-> y0, stage |-> 0, k1 |-> <<>>,
     states |-> <<y0>>, nevals |-> 0, stale |-> stale]

\* One invocation of the callback self.derivatives by odeint, on a model
\* with parameters pp and history lists ht, hx, hy, and what the scheme does
\* with the vector returned: the lists and the working state after it, and
\* the exception if the callback raised.  Both schemes advance a row by
\* y + h * f(y, t); "recheck" then evaluates the callback on the new row at
\* the end of the step before it accepts it.
odeint_step(pp, scheme, u_pattern, ht, hx, hy, o) ==
    LET h == RSub(o.t[o.k + 1], o.t[o.k])
        at == IF o.stage = 0 THEN o.t[o.k] ELSE o.t[o.k + 1]
        yy == IF o.stage = 0 THEN o.y ELSE o.k1
        Advance(d, euler) ==
            [ht |-> d.ht, hx |-> d.hx, hy |-> d.hy, exc |-> d.exc,
             od |-> IF d.exc # ""
                    THEN [o EXCEPT !.nevals = @ + 1]
                    ELSE IF scheme = "euler"
                    THEN [o EXCEPT !.k = @ + 1, !.y = euler,
                                   !.states = Append(@, euler), !.nevals = @ + 1]
                    ELSE IF o.stage = 0
                    THEN [o EXCEPT !.stage = 1, !.k1 = euler, !.nevals = @ + 1]
                    ELSE [o EXCEPT !.k = @ + 1, !.y = o.k1, !.stage = 0,
                                   !.k1 = <<>>, !.states = Append(@, o.k1),
                                   !.nevals = @ + 1]]
        Called(d) == Advance(d, IF d.exc = "" THEN VAdd(o.y, VScale(h, d.val))
                                ELSE <<>>)
    IN  Called(derivatives(pp, ht, hx, hy, yy, at, u_pattern))

\* simulate() without the reset.
ResetHistory_mut_keep == UNCHANGED <<history_t, history_x, history_y>>

\* simulate() emptying only the list of x samples.
ResetHistory_mut_xonly ==
    /\ history_x' = <<>>
    /\ UNCHANGED <<history_t, history_y>>

\* The history reset that opens simulate().
ResetHistory ==
    /\ history_t' = <<>>
    /\ history_x' = <<>>
    /\ history_y' = <<>>

\* simulate(t_span, n_points, initial_state, u_pattern) up to the odeint
\* call.  With n_points = 0 linspace returns an empty grid, and what odeint
\* does with an empty grid is not defined by its documentation: the call
\* either raises or returns an empty trajectory (outcome); the callback is
\* not invoked either way.
simulate(t0, t1, n_points, initial_state, u_pattern) ==
    /\ pc = "idle"
    /\ ncalls < MaxRuns
    /\ ncalls' = ncalls + 1
    /\ call' = [t_span |-> <<t0, t1>>, n_points |-> n_points,
                initial_state |-> initial_state, u_pattern |-> u_pattern]
    /\ ResetHistory
    /\ IF n_points < 0
       THEN \* numpy.linspace raises on a negative number of samples
            /\ ret' = RaisedRet("ValueError")
            /\ od' = OdIdle
            /\ pc' = "idle"
       ELSE IF n_points = 0
       THEN /\ ret' \in {RaisedRet("Error"),
                        [NoRet EXCEPT !.status = "returned"]}
            /\ od' = OdIdle
            /\ pc' = "idle"
       ELSE /\ od' = odeint_start(linspace(t0, t1, n_points),
                                  IF initial_state = None
                                  THEN DefaultInitialState
                                  ELSE initial_state,
                                  Len(history_t) > 0)
            /\ ret' = [NoRet EXCEPT !.status = "pending"]
            /\ pc' = "odeint"
    /\ UNCHANGED <<p, solver, dcall, ndirect, pt, gd, ext>>

\* A caller invokes simulate() with arguments drawn from the input sets.
Simulate ==
    \E t0 \in SpanTimes, t1 \in SpanTimes, n_points \in NPoints,
       initial_state \in InitialStates, u_pattern \in SimPatterns :
        simulate(t0, t1, n_points, initial_state, u_pattern)

\* odeint invokes the callback once more; an exception raised in it leaves
\* odeint and simulate().
OdeintStep ==
    /\ pc = "odeint"
    /\ od.k < Len(od.t)
    /\ \E r \in {odeint_step(p, solver, call.u_pattern,
                              history_t, history_x, history_y, od)} :
           /\ history_t' = r.ht
           /\ history_x' = r.hx
           /\ history_y' = r.hy
           /\ od' = r.od
           /\ IF r.exc # ""
              THEN /\ ret' = RaisedRet(r.exc)
                   /\ pc' = "idle"
              ELSE UNCHANGED <<ret, pc>>
    /\ UNCHANGED <<p, solver, call, ncalls, dcall, ndirect, pt, gd, ext>>

\* odeint has produced the last row: simulate() returns (t, states).
OdeintReturn ==
    /\ pc = "odeint"
    /\ od.k = Len(od.t)
    /\ ret' = [status |-> "returned", exc |-> "", t |-> od.t, states |-> od.states]
    /\ pc' = "idle"
    /\ UNCHANGED <<history_t, history_x, history_y>>
    /\ UNCHANGED <<p, solver, call, od, ncalls, dcall, ndirect, pt, gd, ext>>

\* A caller invokes model.derivatives(state, t, u_pattern) itself.
Derivatives ==
    \E state \in DirectStates, t \in DirectTimes, u_pattern \in DirectPatterns :
        /\ pc = "idle"
        /\ ndirect < MaxDirect
        /\ ndirect' = ndirect + 1
        /\ \E d \in {derivatives(p, history_t, history_x, history_y, state, t,
                                  u_pattern)} :
               /\ history_t' = d.ht
               /\ history_x' = d.hx
               /\ history_y' = d.hy
               /\ dcall' = [called |-> TRUE, state |-> state, t |-> t,
                            u_pattern |-> u_pattern, exc |-> d.exc,
                            val |-> d.val, y_delayed |-> d.y_delayed]
        /\ UNCHANGED <<p, solver, pc, call, od, ret, ncalls, pt, gd, ext>>

\* A caller evaluates model.derivatives several times in a row, as an
\* integrator does, at times and states of its choosing.
MaxEvals == 3       \* derivatives() evaluations per behaviour

EvalStates == {<<One, Zero, Rat(7, 1), Zero, One>>,
               <<Zero, One, Rat(3, 1), One, Zero>>}
EvalTimes == {Rat(4, 1), Rat(5, 1)}
EvalPatterns == {"pulse", "none"}

Evaluate ==
    \E state \in EvalStates, t \in EvalTimes, u_pattern \in EvalPatterns :
        /\ pc = "idle"
        /\ ndirect < MaxEvals
        /\ ndirect' = ndirect + 1
        /\ \E d \in {derivatives(p, history_t, history_x, history_y, state, t,
                                  u_pattern)} :
               /\ history_t' = d.ht
               /\ history_x' = d.hx
               /\ history_y' = d.hy
               /\ dcall' = [called |-> TRUE, state |-> state, t |-> t,
                            u_pattern |-> u_pattern, exc |-> d.exc,
                            val |-> d.val, y_delayed |-> d.y_delayed]
        /\ UNCHANGED <<p, solver, pc, call, od, ret, ncalls, pt, gd, ext>>

\* TORDModel(params) just constructed: empty history lists.
Constructed(params, scheme) ==
    /\ p = params
    /\ solver = scheme
    /\ history_t = <<>>
    /\ history_x = <<>>
    /\ history_y = <<>>
    /\ pc = "idle"
    /\ call = NoCall
    /\ od = OdIdle
    /\ ret = NoRet
    /\ ncalls = 0
    /\ dcall = NoDcall
    /\ ndirect = 0

-----------------------------------------------------------------------------
(* ResonaProductionTrainer (src/resona/training/production_trainer.py).    *)
(* The trainer is one record: the fields __init__ sets, the position of    *)
(* the train_epoch call in flight, the events handed to the audit logger,  *)
(* the files written into checkpoint_dir and the calls made on the         *)
(* optimizer and on wandb.  CriticalPeriodTrainer, CSIMonitor and          *)
(* ResonaAuditLogger are imported from modules that are not among the      *)
(* sources: the step counter an imprinting step leaves and the status a    *)
(* drift check reports are left open, and audit_log is the sequence of     *)
(* log_event calls the trainer makes.  Tensors, losses and metrics are     *)
(* not modelled.                                                           *)

MaxRank == 1          \* ranks 0..MaxRank of a distributed run
MaxBatches == 2       \* length of the short train_dataloader
MaxEpochs == 2        \* train_epoch() calls made on one trainer
MaxSteps == 102       \* loop bodies run by one trainer over all calls
MaxImprintStep == 1   \* largest value of imprint_trainer.step

\* The period of the attractor log and of the CSI check in train_epoch.
MonitorPeriod == 100

\* len(train_dataloader): a short loader, and one long enough to reach the
\* second monitored step.
DataloaderLengths == {MaxBatches, MonitorPeriod + 1}

\* imprint_config.phase_duration_steps; the largest is never reached.
PhaseDurations == 0..(MaxImprintStep + 1)

\* The statuses of CSIMonitor.check_drift() named in the sources.
DriftStatuses == {"HEALTHY_POSITIVE", "STABLE_LOW", "WARNING_NEGATIVE_DRIFT",
                  "CRITICAL_NEGATIVE_DRIFT"}

\* An f-string file name: the text before the number, the number (none for
\* a fixed name) and the text after it.
Filename(prefix, n, suffix) == [prefix |-> prefix, n |-> n, suffix |-> suffix]

NoTrainer ==
    [constructed |-> FALSE, rank |-> 0, n_batches |-> 0,
     phase_duration_steps |-> 0, freeze_after |-> FALSE,
     global_step |-> 0, current_phase |-> "", imprint_step |-> 0,
     frozen |-> FALSE, pc |-> "idle", batch_idx |-> 0, exc |-> "",
     nepochs |-> 0, nbatches |-> 0, last_step |-> "", drift_status |-> "",
     audit_log |-> <<>>, checkpoints |-> {}, optimizer_steps |-> 0,
     wandb_logs |-> 0]

\* ResonaProductionTrainer(...): rank is dist.get_rank() of a distributed
\* run and 0 otherwise.
ResonaProductionTrainer(rank, n_batches, phase_duration_steps, freeze_after) ==
    [NoTrainer EXCEPT !.constructed = TRUE, !.rank = rank,
                      !.n_batches = n_batches,
                      !.phase_duration_steps = phase_duration_steps,
                      !.freeze_after = freeze_after,
                      !.global_step = 0,
                      !.current_phase = "phase1_imprinting"]

\* The call self.audit_logger.log_event(category, data): the category, the
\* event name, the step and the drift status of data.
log_event(tr, category, event, status) ==
    [tr EXCEPT !.audit_log =
        Append(@, [category |-> category, event |-> event,
                   step |-> tr.global_step, status |-> status])]

\* save_checkpoint(filename): torch.save on rank 0 only; a file of the same
\* name is overwritten.
save_checkpoint(tr, filename) ==
    IF tr.rank = 0
    THEN [tr EXCEPT !.checkpoints =
              {c \in @ : c.filename # filename}
                \cup {[filename |-> filename, global_step |-> tr.global_step,
                       current_phase |-> tr.current_phase]}]
    ELSE tr

\* _transition_to_phase2() without the assignment to current_phase.
_transition_to_phase2_mut_nophase(tr) ==
    LET frozen == [tr EXCEPT !.frozen = @ \/ tr.freeze_after]
        saved == save_checkpoint(frozen, Filename("phase1_complete.pt", <<>>, ""))
    IN  log_event(saved, "phase_transitions", "", "")

_transition_to_phase2(tr) ==
    LET frozen == [tr EXCEPT !.frozen = @ \/ tr.freeze_after]
        phase2 == [frozen EXCEPT !.current_phase = "phase2_capability"]
        saved == save_checkpoint(phase2, Filename("phase1_complete.pt", <<>>, ""))
    IN  log_event(saved, "phase_transitions", "", "")

\* _trigger_failsafe(drift_status): the RuntimeError leaves train_epoch.
_trigger_failsafe(tr, status) ==
    LET logged == log_event(tr, "drift_alerts", "FAILSAFE_TRIGGERED", status)
        saved == save_checkpoint(logged,
                     Filename("FAILSAFE_step", <<tr.global_step>>, ".pt"))
    IN  [saved EXCEPT !.exc = "RuntimeError", !.pc = "idle"]

\* _update_csi_monitor(), status being what check_drift() reports.
_update_csi_monitor(tr, status) ==
    LET checked == [tr EXCEPT !.drift_status = status]
        alerted == IF status # "HEALTHY_POSITIVE"
                   THEN log_event(checked, "drift_alerts", "", status)
                   ELSE checked
    IN  IF status = "CRITICAL_NEGATIVE_DRIFT"
        THEN _trigger_failsafe(alerted, status)
        ELSE IF alerted.rank = 0
             THEN [alerted EXCEPT !.wandb_logs = @ + 1]
             ELSE alerted

\* The imprinting branch of the loop body: step_with_imprinting(batch)
\* leaves imprint_trainer.step at imprint_step.
imprinting_branch(tr, imprint_step) ==
    LET stepped == [tr EXCEPT !.imprint_step = imprint_step,
                              !.last_step = "imprinting"]
        logged == IF stepped.global_step % MonitorPeriod = 0
                  THEN log_event(stepped, "attractor_activations", "", "")
                  ELSE stepped
    IN  IF logged.imprint_step >= logged.phase_duration_steps
        THEN _transition_to_phase2(logged)
        ELSE logged

\* One pass through the body of the loop of train_epoch().
train_batch(tr, imprint_step, status) ==
    LET trained == IF tr.current_phase = "phase1_imprinting"
                   THEN imprinting_branch(tr, imprint_step)
                   ELSE [tr EXCEPT !.last_step = "standard"]
        stepped == [trained EXCEPT !.optimizer_steps = @ + 1,
                                   !.nbatches = @ + 1]
        monitored == IF stepped.global_step % MonitorPeriod = 0
                     THEN _update_csi_monitor(stepped, status)
                     ELSE stepped
    IN  IF monitored.exc # ""
        THEN monitored
        ELSE [monitored EXCEPT !.global_step = @ + 1, !.batch_idx = @ + 1]

TrainerUnchanged ==
    UNCHANGED <<simvars, pt, gd, other, jax_p, jax_ret, heap, file>>

\* trainer = ResonaProductionTrainer(...)
NewTrainer ==
    /\ ~trainer.constructed
    /\ \E rank \in 0..MaxRank, n_batches \in DataloaderLengths,
          phase_duration_steps \in PhaseDurations, freeze_after \in BOOLEAN :
          trainer' = ResonaProductionTrainer(rank, n_batches,
                                             phase_duration_steps, freeze_after)
    /\ TrainerUnchanged

\* trainer.train_epoch(epoch) is called.
TrainEpoch ==
    /\ trainer.constructed
    /\ trainer.pc = "idle"
    /\ trainer.nepochs < MaxEpochs
    /\ trainer' = [trainer EXCEPT !.pc = "epoch", !.batch_idx = 0,
                                  !.exc = "", !.nepochs = @ + 1]
    /\ TrainerUnchanged

\* The loop of train_epoch takes the next batch.
TrainBatch ==
    /\ trainer.pc = "epoch"
    /\ trainer.batch_idx < trainer.n_batches
    /\ trainer.nbatches < MaxSteps
    /\ \E imprint_step \in IF trainer.current_phase = "phase1_imprinting"
                           THEN 0..MaxImprintStep
                           ELSE {trainer.imprint_step},
          status \in IF trainer.global_step % MonitorPeriod = 0
                     THEN DriftStatuses
                     ELSE {trainer.drift_status} :
          trainer' = train_batch(trainer, imprint_step, status)
    /\ TrainerUnchanged

\* The loop of train_epoch is through: the call returns the epoch metrics.
TrainEpochReturn ==
    /\ trainer.pc = "epoch"
    /\ trainer.batch_idx = trainer.n_batches
    /\ trainer' = [trainer EXCEPT !.pc = "idle"]
    /\ TrainerUnchanged

\* trainer.save_checkpoint("epoch_<n>.pt") between two train_epoch calls.
SaveCheckpoint ==
    /\ trainer.constructed
    /\ trainer.pc = "idle"
    /\ trainer.nepochs > 0
    /\ trainer' = save_checkpoint(trainer,
                      Filename("epoch_", <<trainer.nepochs - 1>>, ".pt"))
    /\ TrainerUnchanged

NextTrainer ==
    \/ NewTrainer
    \/ TrainEpoch
    \/ TrainBatch
    \/ TrainEpochReturn
    \/ SaveCheckpoint

\* No second thread, a TORDModelJAX just constructed, no parameter object
\* made and no file written yet.
ExtInit ==
    /\ other = NoOther
    /\ jax_p = TORDParameters(Rat(1, 2), One)
    /\ jax_ret = NoJaxRet
    /\ heap = <<>>
    /\ file = NoFile
    /\ trainer = NoTrainer

Init ==
    /\ \E eta \in EtaChoices, scheme \in Solvers :
          Constructed(TORDParameters(eta, One), scheme)
    /\ pt = NoPt
    /\ gd = NoGd
    /\ ExtInit

Next ==
    \/ Simulate
    \/ OdeintStep
    \/ OdeintReturn
    \/ Derivatives

Spec == Init /\ [][Next]_vars

SpecDerivatives == Init /\ [][Evaluate]_vars

-----------------------------------------------------------------------------
(* The pure functions called on their own: perturbation() and the JAX      *)
(* perturbation functions at t = (k - 10)/TicksPerUnit, and the static     *)
(* method _get_delayed() on lists a caller builds sample by sample.        *)

\* One call of perturbation(t, pattern) and of get_perturbation_fn(pattern)(t)
\* per behaviour: the functions keep no state between calls.
call_perturbation(t, pattern) ==
    /\ ~pt.called
    /\ pt' = [called |-> TRUE, t |-> t, pattern |-> pattern,
              ref |-> perturbation(t, pattern),
              jax |-> get_perturbation_fn(pattern, t)]
    /\ UNCHANGED <<simvars, gd, ext>>

CallPerturbation ==
    \E k \in 0..MaxTick, pattern \in Patterns :
        call_perturbation(Rat(k - 10, TicksPerUnit), pattern)

InitPure ==
    /\ Constructed(TORDParameters(Rat(1, 2), One), "euler")
    /\ pt = NoPt
    /\ gd = NoGd
    /\ ExtInit

SpecPerturbation == InitPure /\ [][CallPerturbation]_vars

\* The caller appends one sample to the two lists.
GdRecord ==
    \E t \in 0..MaxTime, y \in YValues :
        /\ Len(gd.t_hist) < MaxHist
        /\ gd' = [NoGd EXCEPT !.t_hist = Append(gd.t_hist, Rat(t, 1)),
                              !.y_hist = Append(gd.y_hist, y)]
        /\ UNCHANGED <<simvars, pt, ext>>

\* The caller looks a time up: half-integers from -1/2 to MaxTime + 1/2.
GdLookup ==
    \E k \in 0..(2 * MaxTime + 2), default \in YValues :
        /\ gd' = [gd EXCEPT !.called = TRUE,
                            !.t_delay = Rat(k - 1, 2),
                            !.default = default,
                            !.res = _get_delayed(Rat(k - 1, 2), gd.t_hist,
                                                 gd.y_hist, default)]
        /\ UNCHANGED <<simvars, pt, ext>>

NextDelayed ==
    \/ GdRecord
    \/ GdLookup

SpecDelayed == InitPure /\ [][NextDelayed]_vars

-----------------------------------------------------------------------------
(* Two threads calling simulate() on one TORDModel.  The code holds no     *)
(* lock and keeps no in-flight flag: the second thread runs the same       *)
(* statements on the same history lists.  Threads are switched between     *)
(* two invocations of the callback.                                        *)

ThreadPoints == {2, 3}

\* The first thread calls simulate((5, 6), n_points) with the defaults.
SimulateFirst ==
    \E n_points \in ThreadPoints :
        simulate(Rat(5, 1), Rat(6, 1), n_points, None, "pulse")

\* The second thread calls simulate((5, 6), n_points): reset, grid, odeint.
SimulateOther ==
    \E n_points \in ThreadPoints :
        /\ other.pc = "idle"
        /\ other.ncalls < MaxRuns
        /\ ResetHistory
        /\ other' = [pc |-> "odeint",
                     call |-> [t_span |-> <<Rat(5, 1), Rat(6, 1)>>,
                               n_points |-> n_points,
                               initial_state |-> None, u_pattern |-> "pulse"],
                     od |-> odeint_start(linspace(Rat(5, 1), Rat(6, 1), n_points),
                                         DefaultInitialState,
                                         Len(history_t) > 0),
                     ret |-> [NoRet EXCEPT !.status = "pending"],
                     ncalls |-> other.ncalls + 1]
        /\ UNCHANGED <<simvars, pt, gd, jax_p, jax_ret, heap, file, trainer>>

\* odeint of the second thread invokes the callback once more.
OdeintStepOther ==
    /\ other.pc = "odeint"
    /\ other.od.k < Len(other.od.t)
    /\ \E r \in {odeint_step(p, solver, other.call.u_pattern,
                              history_t, history_x, history_y, other.od)} :
           /\ history_t' = r.ht
           /\ history_x' = r.hx
           /\ history_y' = r.hy
           /\ other' = IF r.exc # ""
                       THEN [other EXCEPT !.od = r.od, !.pc = "idle",
                                          !.ret = RaisedRet(r.exc)]
                       ELSE [other EXCEPT !.od = r.od]
    /\ UNCHANGED <<p, solver, pc, call, od, ret, ncalls, dcall, ndirect>>
    /\ UNCHANGED <<pt, gd, jax_p, jax_ret, heap, file, trainer>>

\* simulate() of the second thread returns (t, states).
OdeintReturnOther ==
    /\ other.pc = "odeint"
    /\ other.od.k = Len(other.od.t)
    /\ other' = [other EXCEPT !.pc = "idle",
                              !.ret = [status |-> "returned", exc |-> "",
                                       t |-> other.od.t,
                                       states |-> other.od.states]]
    /\ UNCHANGED <<simvars, pt, gd, jax_p, jax_ret, heap, file, trainer>>

NextConcurrent ==
    \/ SimulateFirst
    \/ OdeintStep
    \/ OdeintReturn
    \/ SimulateOther
    \/ OdeintStepOther
    \/ OdeintReturnOther

SpecConcurrent == Init /\ [][NextConcurrent]_vars

-----------------------------------------------------------------------------
(* TORDModelJAX: simulate, parameter_sweep and fit_to_data.  jit, vmap and *)
(* grad are library transformations, taken by their contracts: a call of   *)
(* jit(f) first turns every argument into traced arrays and raises         *)
(* TypeError for an argument that is no array, number or registered        *)
(* container of those, and is f otherwise; vmap(f) maps f over the leading *)
(* axis in order; grad(f) is the derivative of f in every field of the     *)
(* parameter set.  The library's odeint is an adaptive solver; the         *)
(* explicit Euler scheme over the grid stands for it.                      *)

ParamFields == {"omega_x", "omega_y", "gamma_x", "gamma_y", "alpha", "beta",
                "kappa", "lambda_", "eta", "mu"}

\* derivatives_no_delay without the coupling of dv_x/dt to y.
derivatives_no_delay_mut_uncoupled(pp, state, t, u_pattern) ==
    <<state[2],
      RAdd(RSub(RMul(RNeg(RMul(pp.omega_x, pp.omega_x)), state[1]),
                RMul(pp.gamma_x, state[2])),
           RMul(pp.mu, get_perturbation_fn(u_pattern, t))),
      state[4],
      RAdd(RSub(RMul(RNeg(RMul(pp.omega_y, pp.omega_y)), state[3]),
                RMul(pp.gamma_y, state[4])),
           RMul(pp.beta, state[1])),
      RSub(RMul(pp.kappa, RMul(state[1], state[1])), RMul(pp.lambda_, state[5]))>>

derivatives_no_delay(pp, state, t, u_pattern) ==
    LET x == state[1]
        v_x == state[2]
        y == state[3]
        v_y == state[4]
        theta == state[5]
        u_t == get_perturbation_fn(u_pattern, t)
        dv_x_dt == RAdd(RSub(RSub(RMul(RNeg(RMul(pp.omega_x, pp.omega_x)), x),
                                  RMul(pp.gamma_x, v_x)),
                             RMul(pp.alpha, y)),
                        RMul(pp.mu, u_t))
        dv_y_dt == RAdd(RSub(RMul(RNeg(RMul(pp.omega_y, pp.omega_y)), y),
                             RMul(pp.gamma_y, v_y)),
                        RMul(pp.beta, x))
        dtheta_dt == RSub(RMul(pp.kappa, RMul(x, x)), RMul(pp.lambda_, theta))
    IN  <<v_x, dv_x_dt, v_y, dv_y_dt, dtheta_dt>>

\* The rows odeint returns for the grid t, given the rows up to index k.
RECURSIVE jax_odeint(_, _, _, _, _)
jax_odeint(pp, u_pattern, t, k, states) ==
    IF k >= Len(t)
    THEN states
    ELSE jax_odeint(pp, u_pattern, t, k + 1,
                    Append(states,
                           VAdd(states[k],
                                VScale(RSub(t[k + 1], t[k]),
                                       derivatives_no_delay(pp, states[k], t[k],
                                                            u_pattern)))))

\* TORDModelJAX(pp).simulate(t_span, n_points, initial_state, u_pattern).
jax_simulate(pp, t_span, n_points, initial_state, u_pattern) ==
    LET Run(t) == [t |-> t,
                   states |-> jax_odeint(pp, u_pattern, t, 1, <<initial_state>>)]
    IN  Run(linspace(t_span[1], t_span[2], n_points))

\* The kinds of value jit accepts as an argument: arrays, numbers, tuples of
\* those, and TORDParamsJAX, the one class registered as a pytree node.
ValidJaxTypes == {"array", "float", "int", "tuple", "TORDParamsJAX"}

\* The arguments of a call model.simulate(t_span, n_points, initial_state,
\* u_pattern) as the jit wrapper receives them: self first.
SimulateArgTypes == <<"TORDModelJAX", "tuple", "int", "array", "str">>

\* A call of the jit-wrapped simulate: the arguments are checked before the
\* body is traced.
jit_simulate(pp, t_span, n_points, initial_state, u_pattern) ==
    IF \A i \in 1..Len(SimulateArgTypes) : SimulateArgTypes[i] \in ValidJaxTypes
    THEN [exc |-> "",
          val |-> jax_simulate(pp, t_span, n_points, initial_state, u_pattern)]
    ELSE [exc |-> "TypeError", val |-> <<>>]

\* run_with_param writing the swept value into self.p in place.
run_with_param_mut_inplace(pp, param_name, param_val) ==
    [self_p |-> [pp EXCEPT ![param_name] = param_val],
     temp_params |-> [pp EXCEPT ![param_name] = param_val]]

\* run_with_param up to the construction of temp_params: params_dict copies
\* the ten fields of self.p and the swept one is overwritten; self.p is what
\* the model holds afterwards.
run_with_param(pp, param_name, param_val) ==
    [self_p |-> pp,
     temp_params |-> [pp EXCEPT ![param_name] = param_val]]

\* parameter_sweep(param_name, param_range, t_span, n_points, initial_state,
\* u_pattern) on a model holding pp.  A name that is no field gives
\* params_dict an eleventh key and TORDParamsJAX(**params_dict) raises; an
\* exception of temp_model.simulate leaves the sweep without a result.
parameter_sweep(pp, param_name, param_range, t_span, n_points, initial_state, u_pattern) ==
    LET Collected(runs) ==
            IF \E i \in 1..Len(runs) : runs[i].exc # ""
            THEN [exc |-> "TypeError", val |-> <<>>]
            ELSE [exc |-> "",
                  val |-> [param_values |-> param_range,
                           t |-> linspace(t_span[1], t_span[2], n_points),
                           states_ensemble |->
                               [i \in 1..Len(runs) |-> runs[i].val.states]]]
        Swept(r) ==
            [exc |-> r.exc,
             self_p |-> IF param_name \in ParamFields /\ Len(param_range) > 0
                        THEN run_with_param(pp, param_name,
                                            param_range[Len(param_range)]).self_p
                        ELSE pp,
             val |-> r.val]
    IN  Swept(Collected(
            [i \in 1..Len(param_range) |->
                IF param_name \notin ParamFields
                THEN [exc |-> "TypeError", val |-> <<>>]
                ELSE jit_simulate(
                         run_with_param(pp, param_name,
                                        param_range[i]).temp_params,
                         t_span, n_points,
                         IF initial_state = None
                         THEN DefaultInitialState ELSE initial_state,
                         u_pattern)]))

\* loss_fn of fit_to_data: the mean squared error between the x column of
\* the pulse simulation over the data's grid and data_x.
loss_fn(params, data_t, data_x) ==
    LET Mse(r) ==
            LET RECURSIVE SumSq(_)
                SumSq(i) ==
                    IF i = 0 THEN Zero
                    ELSE RAdd(SumSq(i - 1),
                              RMul(RSub(r.val.states[i][1], data_x[i]),
                                   RSub(r.val.states[i][1], data_x[i])))
            IN  IF r.exc # "" THEN [exc |-> r.exc, val |-> Zero]
                ELSE [exc |-> "",
                      val |-> RDiv(SumSq(Len(r.val.states)),
                                   Rat(Len(r.val.states), 1))]
    IN  Mse(jit_simulate(params, <<data_t[1], data_t[Len(data_t)]>>,
                         Len(data_t), DefaultInitialState, "pulse"))

\* grad(loss_fn)(params): loss_fn is run on the traced params, and the result
\* is the derivative of the loss in each field, as the symmetric difference
\* quotient of step 1.  On a grid of at most three points the loss is a
\* polynomial of degree at most 2 in alpha, gamma_x and mu and constant in
\* the fields the x column does not depend on, and there the quotient is the
\* derivative exactly.
grad_loss_fn(params, data_t, data_x) ==
    LET Traced(l) ==
            IF l.exc # "" THEN [exc |-> l.exc, val |-> <<>>]
            ELSE [exc |-> "",
                  val |-> [f \in ParamFields |->
                      RDiv(RSub(loss_fn([params EXCEPT ![f] = RAdd(params[f], One)],
                                        data_t, data_x).val,
                                loss_fn([params EXCEPT ![f] = RSub(params[f], One)],
                                        data_t, data_x).val),
                           Rat(2, 1))]]
    IN  Traced(loss_fn(params, data_t, data_x))

\* The loop of fit_to_data from iteration i on: loss and gradient are
\* computed, and params is what the next iteration starts from.
RECURSIVE fit_loop(_, _, _, _, _, _)
fit_loop(params, i, n_iterations, data_t, data_x, grads) ==
    IF i >= n_iterations
    THEN [exc |-> "", val |-> params, grads |-> grads]
    ELSE LET Updated(g) ==
                 IF g.exc # ""
                 THEN [exc |-> g.exc, val |-> <<>>, grads |-> grads]
                 ELSE fit_loop(params, i + 1, n_iterations, data_t, data_x, g.val)
             Evaluated(loss_val) ==
                 IF loss_val.exc # ""
                 THEN [exc |-> loss_val.exc, val |-> <<>>, grads |-> grads]
                 ELSE Updated(grad_loss_fn(params, data_t, data_x))
         IN  Evaluated(loss_fn(params, data_t, data_x))

\* fit_to_data(data_t, data_x, initial_params, n_iterations): the parameter
\* set returned, and the gradient its last iteration computed.
fit_to_data(data_t, data_x, initial_params, n_iterations) ==
    fit_loop(initial_params, 0, n_iterations, data_t, data_x, <<>>)

MaxSweep == 2       \* length of param_range
MaxIter == 2        \* n_iterations of fit_to_data

SweepNames == {"alpha", "eta", "gain"}
SweepValues == {Zero, One, Rat(2, 1)}
SweepRanges == UNION {[1..n -> SweepValues] : n \in 1..MaxSweep}
SweepPoints == {2, 3}
DataT == <<Rat(5, 1), Rat(11, 2), Rat(6, 1)>>
DataX == [1..3 -> {Zero, Rat(1, 10)}]
FitParams == {TORDParameters(Rat(1, 2), One),
              [TORDParameters(Rat(1, 2), One) EXCEPT !.mu = Zero]}

\* A caller runs a sweep on the JAX model.
call_parameter_sweep(param_name, param_range, n_points) ==
    \E r \in {parameter_sweep(jax_p, param_name, param_range,
                               <<Rat(5, 1), Rat(6, 1)>>, n_points, None,
                               "pulse")} :
        /\ jax_ret' = [op |-> "parameter_sweep", exc |-> r.exc,
                       args |-> [param_name |-> param_name,
                                 param_range |-> param_range,
                                 t_span |-> <<Rat(5, 1), Rat(6, 1)>>,
                                 n_points |-> n_points],
                       val |-> r.val, grads |-> <<>>]
        /\ jax_p' = r.self_p
        /\ UNCHANGED <<simvars, pt, gd, other, heap, file, trainer>>

ParameterSweep ==
    \E param_name \in SweepNames, param_range \in SweepRanges,
       n_points \in SweepPoints :
        call_parameter_sweep(param_name, param_range, n_points)

\* A caller fits a parameter set to three observations.
call_fit_to_data(data_x, initial_params, n_iterations) ==
    \E r \in {fit_to_data(DataT, data_x, initial_params, n_iterations)} :
        /\ jax_ret' = [op |-> "fit_to_data", exc |-> r.exc,
                       args |-> [data_x |-> data_x,
                                 initial_params |-> initial_params,
                                 n_iterations |-> n_iterations],
                       val |-> r.val, grads |-> r.grads]
        /\ UNCHANGED <<simvars, pt, gd, other, jax_p, heap, file, trainer>>

FitToData ==
    \E data_x \in DataX, initial_params \in FitParams,
       n_iterations \in 0..MaxIter :
        call_fit_to_data(data_x, initial_params, n_iterations)

NextJax ==
    \/ ParameterSweep
    \/ FitToData

SpecJax == InitPure /\ [][NextJax]_vars

-----------------------------------------------------------------------------
(* compute_boundary_stability.  A real number is kept exactly: nan, a      *)
(* rational, or the square root of a rational that has no rational root    *)
(* (kind "surd", val the number under the root; for a stability value,     *)
(* 1/(1 + that root)).                                                     *)

MaxTheta == 3       \* length of the theta array
MaxWindow == 3      \* window arguments are 1..MaxWindow
DefaultWindow == 100

max2(a, b) == IF b > a THEN b ELSE a
min2(a, b) == IF b < a THEN b ELSE a

RECURSIVE RSum(_)
RSum(a) == IF a = <<>> THEN Zero ELSE RAdd(Head(a), RSum(Tail(a)))

ISqrt(n) == CHOOSE k \in 0..n : k * k <= n /\ n < (k + 1) * (k + 1)

\* jnp.std(a): the root of the mean squared deviation from the mean; nan for
\* an empty array.
jnp_std(a) ==
    IF a = <<>> THEN [kind |-> "nan", val |-> Zero]
    ELSE LET Dev(mean) ==
                 RDiv(RSum([i \in 1..Len(a) |->
                               RMul(RSub(a[i], mean), RSub(a[i], mean))]),
                      Rat(Len(a), 1))
             Root(v) ==
                 IF ISqrt(v[1]) * ISqrt(v[1]) = v[1] /\ ISqrt(v[2]) * ISqrt(v[2]) = v[2]
                 THEN [kind |-> "rat", val |-> Rat(ISqrt(v[1]), ISqrt(v[2]))]
                 ELSE [kind |-> "surd", val |-> v]
         IN  Root(Dev(RDiv(RSum(a), Rat(Len(a), 1))))

\* The slice arr[start:end] taken at index i (from 0) of an array of n
\* entries for the window w.
rolling_window(n, i, w) ==
    [start |-> max2(0, i - (w \div 2)), end |-> min2(n, i + (w \div 2))]

\* rolling_std(arr, w) with w a Python int.
rolling_std(arr, w) ==
    [k \in 1..Len(arr) |->
        jnp_std(SubSeq(arr, rolling_window(Len(arr), k - 1, w).start + 1,
                       rolling_window(Len(arr), k - 1, w).end))]

\* 1.0 / (1.0 + std_theta), entry by entry.
stability_of(std) ==
    IF std.kind = "rat"
    THEN [kind |-> "rat", val |-> RDiv(One, RAdd(One, std.val))]
    ELSE std

\* The body of compute_boundary_stability for a window that is a Python int.
compute_boundary_stability(theta, window) ==
    [k \in 1..Len(theta) |-> stability_of(rolling_std(theta, window)[k])]

\* A call of the jit-wrapped compute_boundary_stability; window is <<>> when
\* the caller leaves it out and <<w>> when w is passed.  An argument that is
\* passed is traced, and max(0, i - w // 2) on a traced w needs its truth
\* value, which raises in the first pass of the loop; the default of an
\* argument left out stays the Python int.
jit_compute_boundary_stability(theta, window) ==
    IF window = <<>>
    THEN [exc |-> "", val |-> compute_boundary_stability(theta, DefaultWindow)]
    ELSE IF Len(theta) = 0
    THEN [exc |-> "", val |-> <<>>]
    ELSE [exc |-> "TracerBoolConversionError", val |-> <<>>]

ThetaValues == {Zero, One, Rat(2, 1)}
ThetaArrays == UNION {[1..n -> ThetaValues] : n \in 0..MaxTheta}
WindowArgs == {<<>>} \cup {<<w>> : w \in 1..MaxWindow}

\* A caller computes the rolling stability of an array.
ComputeBoundaryStability ==
    \E theta \in ThetaArrays, window \in WindowArgs :
        \E r \in {jit_compute_boundary_stability(theta, window)} :
            /\ jax_ret' = [op |-> "compute_boundary_stability", exc |-> r.exc,
                           args |-> [theta |-> theta, window |-> window],
                           val |-> r.val, grads |-> <<>>]
            /\ UNCHANGED <<simvars, pt, gd, other, jax_p, heap, file, trainer>>

SpecStability == InitPure /\ [][ComputeBoundaryStability]_vars

-----------------------------------------------------------------------------
(* TORDModel.save_trajectory.  csv.writer turns every number into text     *)
(* with str(), the shortest decimal that reads back as the same float,     *)
(* and joins the fields of a row with commas.  A text is a sequence of     *)
(* one-character strings; the header's column names are single tokens.     *)
(* Reading back is csv.reader and float(), which the repository leaves to  *)
(* the consumer of the file.                                               *)

MaxDigits == 6      \* fraction digits a number of the model may need
MaxRows == 2        \* rows of the trajectories handed to save_trajectory()

DigitChar(d) == <<"0", "1", "2", "3", "4", "5", "6", "7", "8", "9">>[d + 1]
DigitVal(c) == CHOOSE d \in 0..9 : DigitChar(d) = c

RECURSIVE NatStr(_)
NatStr(n) == IF n < 10 THEN <<DigitChar(n)>>
             ELSE Append(NatStr(n \div 10), DigitChar(n % 10))

\* The digits of num/den < 1 after the point, at most k of them.
RECURSIVE FracStr(_, _, _)
FracStr(num, den, k) ==
    IF num = 0 \/ k = 0 THEN <<>>
    ELSE <<DigitChar((10 * num) \div den)>> \o FracStr((10 * num) % den, den, k - 1)

\* str() keeping two digits after the point, the last one rounded half up.
str_float_mut_2dp(r) ==
    LET n == (AbsInt(r[1]) * 200 + r[2]) \div (2 * r[2])
    IN  (IF r[1] < 0 THEN <<"-">> ELSE <<>>)
        \o NatStr(n \div 100) \o <<".">>
        \o <<DigitChar((n \div 10) % 10), DigitChar(n % 10)>>

\* str(x) of a float x: sign, integer digits, point, fraction digits, with
\* "0" after the point of a whole number.
str_float(r) ==
    LET Body(n, frac) ==
            NatStr(n) \o <<".">> \o (IF frac = <<>> THEN <<"0">> ELSE frac)
    IN  (IF r[1] < 0 THEN <<"-">> ELSE <<>>)
        \o Body(AbsInt(r[1]) \div r[2],
                FracStr(AbsInt(r[1]) % r[2], r[2], MaxDigits))

\* float(s) of a text in that form.
RECURSIVE float_digits(_, _, _, _)
float_digits(s, i, num, den) ==
    IF i > Len(s) THEN Rat(num, den)
    ELSE IF s[i] = "." THEN float_digits(s, i + 1, num, 1)
    ELSE float_digits(s, i + 1, 10 * num + DigitVal(s[i]),
                      IF den = 0 THEN 0 ELSE 10 * den)

float_parse(s) ==
    LET Signed(neg, body) ==
            LET Scaled(v) == IF neg THEN RNeg(v) ELSE v
            IN  Scaled(float_digits(body, 1, 0, 0))
    IN  IF s[1] = "-" THEN Signed(TRUE, Tail(s)) ELSE Signed(FALSE, s)

\* writerow: the fields joined with commas.
RECURSIVE writerow(_)
writerow(fields) ==
    IF Len(fields) = 1 THEN fields[1]
    ELSE fields[1] \o <<",">> \o writerow(Tail(fields))

\* csv.reader on one line: the texts between the commas.
RECURSIVE reader_row(_, _)
reader_row(line, field) ==
    IF line = <<>> THEN <<field>>
    ELSE IF Head(line) = "," THEN <<field>> \o reader_row(Tail(line), <<>>)
    ELSE reader_row(Tail(line), Append(field, Head(line)))

HeaderRow == writerow(<< <<"time">>, <<"x_accessibility">>, <<"v_x">>,
                         <<"y_repair">>, <<"v_y">>, <<"theta_boundary">> >>)

\* The rows from index i on: states[i] out of range raises IndexError and
\* leaves the rows written so far.
RECURSIVE save_rows(_, _, _)
save_rows(t, states, i) ==
    IF i > Len(t) THEN [exc |-> "", rows |-> <<>>]
    ELSE IF i > Len(states) THEN [exc |-> "IndexError", rows |-> <<>>]
    ELSE LET Rest(r) ==
                 [exc |-> r.exc,
                  rows |-> <<writerow(<<str_float(t[i])>> \o
                                      [j \in 1..Len(states[i]) |->
                                          str_float(states[i][j])])>>
                           \o r.rows]
         IN  Rest(save_rows(t, states, i + 1))

\* save_trajectory(filename, t, states): the lines of the file.
save_trajectory(t, states) ==
    LET Written(r) == [exc |-> r.exc, rows |-> <<HeaderRow>> \o r.rows]
    IN  Written(save_rows(t, states, 1))

\* The time and state sequences a reader gets from the lines after the
\* header.
read_trajectory(rows) ==
    LET Row(i) == [j \in 1..Len(reader_row(rows[i], <<>>)) |->
                      float_parse(reader_row(rows[i], <<>>)[j])]
    IN  [t |-> [i \in 1..(Len(rows) - 1) |-> Row(i + 1)[1]],
         states |-> [i \in 1..(Len(rows) - 1) |-> Tail(Row(i + 1))]]

SaveValues == {Zero, Rat(-5, 4), Rat(11, 2), Rat(1, 10), Rat(3, 1)}
SaveStates == {DefaultInitialState,
               <<Rat(-5, 4), Rat(3, 8), Zero, Rat(12, 1), Rat(1, 1000)>>}

\* A caller saves a trajectory of up to MaxRows rows.
SaveTrajectory ==
    \E n \in 0..MaxRows :
        \E t \in [1..n -> SaveValues], states \in [1..n -> SaveStates] :
            \E r \in {save_trajectory(t, states)} :
                /\ file' = [called |-> TRUE, t |-> t, states |-> states,
                            exc |-> r.exc, rows |-> r.rows]
                /\ UNCHANGED <<simvars, pt, gd, other, jax_p, jax_ret, heap, trainer>>

\* A caller saves the trajectory the last simulate() call returned.
SaveReturned ==
    /\ pc = "idle"
    /\ ret.status = "returned"
    /\ \E r \in {save_trajectory(ret.t, ret.states)} :
           file' = [called |-> TRUE, t |-> ret.t, states |-> ret.states,
                    exc |-> r.exc, rows |-> r.rows]
    /\ UNCHANGED <<simvars, pt, gd, other, jax_p, jax_ret, heap, trainer>>

SpecSave == InitPure /\ [][SaveTrajectory]_vars

-----------------------------------------------------------------------------
(* One caller using every operation of both models on the parameter sets   *)
(* they were constructed with, in any order and any number of times.       *)

PerturbationOnce ==
    \E pattern \in {"pulse", "stress"} : call_perturbation(Rat(26, 5), pattern)

SweepOnce ==
    \E param_name \in {"alpha", "eta"} :
        call_parameter_sweep(param_name, <<Zero, Rat(2, 1)>>, 2)

FitOnce ==
    call_fit_to_data(<<Zero, Rat(1, 10), Zero>>, TORDParameters(Rat(1, 2), One), 1)

NextFrame ==
    \/ SimulateFirst
    \/ OdeintStep
    \/ OdeintReturn
    \/ Derivatives
    \/ PerturbationOnce
    \/ SaveReturned
    \/ SweepOnce
    \/ FitOnce

SpecFrame == Init /\ [][NextFrame]_vars

-----------------------------------------------------------------------------
(* The TORDParameters dataclass and the four scenario presets.  heap is    *)
(* the sequence of parameter objects the callers hold, in order of         *)
(* creation; a reference is an index into it.  Each object carries the     *)
(* call that returned it (src), its fields when it was last returned       *)
(* (born), its fields now (val) and how many calls have returned it.       *)

MaxObjs == 2        \* parameter objects the callers create

\* pi, to the accuracy the distinctness of the field values needs.
Pi == Rat(22, 7)

\* The field defaults of the dataclass.
DefaultParameters ==
    [omega_x |-> RDiv(RMul(Rat(2, 1), Pi), Rat(24, 1)),
     omega_y |-> RDiv(RMul(Rat(2, 1), Pi), Rat(4, 1)),
     gamma_x |-> Rat(1, 10), gamma_y |-> Rat(15, 100),
     alpha |-> Rat(3, 10), beta |-> Rat(4, 10),
     kappa |-> Rat(5, 100), lambda_ |-> Rat(2, 100),
     eta |-> Rat(1, 2), mu |-> Rat(2, 10)]

\* TORDParameters(): a new object on the heap h, every field at its default.
new_TORDParameters(h) ==
    [heap |-> Append(h, [src |-> "", born |-> <<>>, val |-> DefaultParameters,
                         returned |-> 0]),
     ref |-> Len(h) + 1]

\* params.f = v per field of the record upd, on the object at ref.
set_fields(r, upd) ==
    [heap |-> [r.heap EXCEPT ![r.ref].val =
                  [f \in DOMAIN @ |-> IF f \in DOMAIN upd THEN upd[f] ELSE @[f]]],
     ref |-> r.ref]

UvTriageOverrides == [eta |-> Rat(33, 100), beta |-> Rat(6, 10), alpha |-> Rat(4, 10)]

EngramOverrides ==
    [kappa |-> Rat(15, 100), lambda_ |-> Rat(1, 100),
     omega_x |-> RDiv(RMul(Rat(2, 1), Pi), Rat(48, 1))]

HpaStressOverrides == [mu |-> Rat(35, 100), lambda_ |-> Rat(4, 100), gamma_y |-> Rat(2, 10)]

DevelopmentOverrides ==
    [kappa |-> Rat(20, 100), lambda_ |-> Rat(5, 1000),
     omega_x |-> RDiv(RMul(Rat(2, 1), Pi), Rat(12, 1))]

\* get_uv_triage_params keeping one object that every call configures and
\* returns.
get_uv_triage_params_mut_shared(h) ==
    IF \E i \in 1..Len(h) : h[i].src = "get_uv_triage_params"
    THEN set_fields([heap |-> h,
                     ref |-> CHOOSE i \in 1..Len(h) :
                                 h[i].src = "get_uv_triage_params"],
                    UvTriageOverrides)
    ELSE set_fields(new_TORDParameters(h), UvTriageOverrides)

get_uv_triage_params(h) == set_fields(new_TORDParameters(h), UvTriageOverrides)

get_engram_params(h) == set_fields(new_TORDParameters(h), EngramOverrides)

get_hpa_stress_params(h) == set_fields(new_TORDParameters(h), HpaStressOverrides)

get_development_params(h) == set_fields(new_TORDParameters(h), DevelopmentOverrides)

PresetNames == {"get_uv_triage_params", "get_engram_params",
                "get_hpa_stress_params", "get_development_params"}

\* The call named src on the heap h.
call_factory(src, h) ==
    IF src = "get_uv_triage_params" THEN get_uv_triage_params(h)
    ELSE IF src = "get_engram_params" THEN get_engram_params(h)
    ELSE IF src = "get_hpa_stress_params" THEN get_hpa_stress_params(h)
    ELSE IF src = "get_development_params" THEN get_development_params(h)
    ELSE new_TORDParameters(h)

\* The heap after the call src has handed its object to the caller.
returned_to_caller(src, r) ==
    [r.heap EXCEPT ![r.ref].src = src,
                   ![r.ref].born = r.heap[r.ref].val,
                   ![r.ref].returned = @ + 1]

\* A caller constructs TORDParameters().
Construct ==
    /\ Len(heap) < MaxObjs
    /\ heap' = returned_to_caller("TORDParameters", call_factory("TORDParameters", heap))
    /\ UNCHANGED <<simvars, pt, gd, other, jax_p, jax_ret, file, trainer>>

\* A caller calls one of the presets.
CallPreset ==
    \E src \in PresetNames :
        /\ Len(heap) < MaxObjs
        /\ heap' = returned_to_caller(src, call_factory(src, heap))
        /\ UNCHANGED <<simvars, pt, gd, other, jax_p, jax_ret, file, trainer>>

SetFieldNames == {"eta", "kappa"}
SetFieldValues == {Zero}

\* A caller assigns a field of a set it was handed.
SetField ==
    \E i \in 1..Len(heap), f \in SetFieldNames, v \in SetFieldValues :
        /\ heap[i].val[f] # v
        /\ heap' = [heap EXCEPT ![i].val[f] = v]
        /\ UNCHANGED <<simvars, pt, gd, other, jax_p, jax_ret, file, trainer>>

NextPresets ==
    \/ Construct
    \/ CallPreset
    \/ SetField

SpecPresets == InitPure /\ [][NextPresets]_vars

-----------------------------------------------------------------------------
(* simulate() on a freshly constructed model, as one function of its       *)
(* arguments: the rows odeint returns when it starts from empty lists.     *)

RECURSIVE odeint_run(_, _, _, _, _, _, _)
odeint_run(pp, scheme, u_pattern, ht, hx, hy, o) ==
    IF o.k >= Len(o.t)
    THEN [exc |-> "", states |-> o.states]
    ELSE LET Then(r) ==
                 IF r.exc # ""
                 THEN [exc |-> r.exc, states |-> <<>>]
                 ELSE odeint_run(pp, scheme, u_pattern, r.ht, r.hx, r.hy, r.od)
         IN  Then(odeint_step(pp, scheme, u_pattern, ht, hx, hy, o))

FreshSimulate(pp, scheme, c) ==
    odeint_run(pp, scheme, c.u_pattern, <<>>, <<>>, <<>>,
               odeint_start(linspace(c.t_span[1], c.t_span[2], c.n_points),
                            IF c.initial_state = None THEN DefaultInitialState
                            ELSE c.initial_state,
                            FALSE))

ValidSpan(c) == RLt(c.t_span[1], c.t_span[2])
NonDecreasing(ts) == \A i \in 1..(Len(ts) - 1) : RLe(ts[i], ts[i + 1])

\* The pulse run of the delay test on a grid of unit steps: five points, so
\* that a difference in the delayed y of the third evaluation reaches x.
DelayCall == [t_span |-> <<Rat(5, 1), Rat(9, 1)>>, n_points |-> 5,
              initial_state |-> None, u_pattern |-> "pulse"]

SimulateDelay ==
    simulate(DelayCall.t_span[1], DelayCall.t_span[2], DelayCall.n_points,
             DelayCall.initial_state, DelayCall.u_pattern)

NextDelayEffect ==
    \/ SimulateDelay
    \/ OdeintStep
    \/ OdeintReturn
    \/ Derivatives

SpecDelayEffect == Init /\ [][NextDelayEffect]_vars

\* A run that starts with y moving (v_y = 1), on a grid of half-unit steps.
MovingCall == [t_span |-> <<Rat(5, 1), Rat(6, 1)>>, n_points |-> 3,
               initial_state |-> <<Zero, Zero, One, One, Zero>>,
               u_pattern |-> "pulse"]

SimulateMoving ==
    simulate(MovingCall.t_span[1], MovingCall.t_span[2], MovingCall.n_points,
             MovingCall.initial_state, MovingCall.u_pattern)

NextFallback ==
    \/ SimulateMoving
    \/ OdeintStep
    \/ OdeintReturn
    \/ Derivatives

SpecFallback == Init /\ [][NextFallback]_vars

SpecTrainer == InitPure /\ [][NextTrainer]_vars

\* The callback evaluation odeint makes next from the working state o: what
\* derivatives returns for it on the lists ht, hx, hy.
next_evaluation(pp, u_pattern, ht, hx, hy, o) ==
    derivatives(pp, ht, hx, hy,
                IF o.stage = 0 THEN o.y ELSE o.k1,
                IF o.stage = 0 THEN o.t[o.k] ELSE o.t[o.k + 1],
                u_pattern)

\* The x column of a trajectory.
XColumn(states) == [i \in 1..Len(states) |-> states[i][1]]

-----------------------------------------------------------------------------
(* The claims.                                                             *)

\* C1: a simulate() call with n_points = k >= 1 and t0 < t1 that returns,
\* returns a time array of exactly k points, starting at t0, ending at t1
\* when k >= 2, with every gap equal to (t1 - t0)/(k - 1), and a state array
\* of exactly k rows of 5 values.
C1_SimulateShape ==
    (ret.status = "returned" /\ call.n_points >= 1 /\ ValidSpan(call)) =>
        LET k == call.n_points
            t0 == call.t_span[1]
            t1 == call.t_span[2]
        IN  /\ Len(ret.t) = k
            /\ ret.t[1] = t0
            /\ (k >= 2 => ret.t[k] = t1)
            /\ \A i \in 1..(k - 1) :
                  RSub(ret.t[i + 1], ret.t[i]) = RDiv(RSub(t1, t0), Rat(k - 1, 1))
            /\ Len(ret.states) = k
            /\ \A i \in 1..k : Len(ret.states[i]) = 5

\* C1 witness: a returned three-point run over (5, 6), grid 5, 5.5, 6.
C1_Witness ==
    /\ ret.status = "returned"
    /\ call.n_points = 3
    /\ call.t_span = <<Rat(5, 1), Rat(6, 1)>>
    /\ ret.t = <<Rat(5, 1), Rat(11, 2), Rat(6, 1)>>
    /\ Len(ret.states) = 3

\* C3: what a simulate() call returns (or raises) is the function
\* FreshSimulate of its arguments and of the parameter set alone: it is what
\* a freshly constructed model returns for the same arguments, whatever
\* simulate() or derivatives() calls the instance served before.
C3_Deterministic ==
    (call.n_points >= 1 /\ ret.status \in {"returned", "raised"}) =>
        LET f == FreshSimulate(p, solver, call)
        IN  /\ ret.exc = f.exc
            /\ ret.status = "returned" =>
                  /\ ret.states = f.states
                  /\ ret.t = linspace(call.t_span[1], call.t_span[2], call.n_points)

\* C3 witness: a run has returned on an instance that held samples of
\* earlier calls when it was entered, and whose delayed lookups reached back
\* in time (eta > 0, at least two callback evaluations).
C3_Witness ==
    /\ ret.status = "returned"
    /\ od.stale
    /\ od.nevals >= 2
    /\ RLt(Zero, p.eta)
    /\ ValidSpan(call)

\* C4 (as claimed, for the time span): a simulate() call whose t_span has
\* start >= end is rejected before integration begins: it never reaches a
\* derivative evaluation and never returns a trajectory.
C4_InvalidRejected ==
    (ncalls > 0 /\ call.n_points >= 1 /\ ~ValidSpan(call)) =>
        /\ od.nevals = 0
        /\ ret.status # "returned"

\* C5: _get_delayed returns exactly the supplied default whenever the history
\* is empty or t_delay is earlier than the first recorded time.
C5_DefaultBeforeHistory ==
    (gd.called /\ (Len(gd.t_hist) = 0 \/ RLt(gd.t_delay, gd.t_hist[1]))) =>
        gd.res = Returned(gd.default)

\* C5 witness: a lookup before the first of several samples, with a default
\* that differs from every recorded y.
C5_Witness ==
    /\ gd.called
    /\ Len(gd.t_hist) >= 2
    /\ RLt(gd.t_delay, gd.t_hist[1])
    /\ \A i \in 1..Len(gd.y_hist) : gd.y_hist[i] # gd.default
    /\ gd.res = Returned(gd.default)

\* C6 (as claimed): with non-decreasing timestamps, a lookup at a time equal
\* to a recorded sample's timestamp returns that sample's y-value.
C6_ExactAtSample ==
    (gd.called /\ NonDecreasing(gd.t_hist)) =>
        \A i \in 1..Len(gd.t_hist) :
            gd.t_hist[i] = gd.t_delay => gd.res = Returned(gd.y_hist[i])

\* C7 (as claimed): _get_delayed never divides by zero and never raises,
\* whatever duplicate timestamps the history holds and whatever the query.
C7_NeverRaises == gd.called => gd.res.exc = ""

\* C8 (as claimed): with a non-empty history of non-decreasing timestamps, a
\* lookup at or beyond the last recorded time returns the last appended y.
C8_LastAtOrBeyond ==
    (/\ gd.called
     /\ Len(gd.t_hist) > 0
     /\ NonDecreasing(gd.t_hist)
     /\ RLe(gd.t_hist[Len(gd.t_hist)], gd.t_delay)) =>
        gd.res = Returned(gd.y_hist[Len(gd.y_hist)])

\* C9: perturbation(t, "pulse") is 1.0 exactly when 5.0 <= t <= 5.5 and 0.0
\* for every other t (0.0 at 3.0, 1.0 at 5.2, 0.0 at 6.0), and the JAX
\* perturbation_pulse returns the same value.
C9_Pulse ==
    (pt.called /\ pt.pattern = "pulse") =>
        /\ pt.ref = IF RLe(Rat(5, 1), pt.t) /\ RLe(pt.t, Rat(11, 2))
                    THEN One ELSE Zero
        /\ (pt.t = Rat(3, 1) => pt.ref = Zero)
        /\ (pt.t = Rat(26, 5) => pt.ref = One)
        /\ (pt.t = Rat(6, 1) => pt.ref = Zero)
        /\ pt.jax = pt.ref

\* C9 witness: the pulse evaluated at the right endpoint 5.5 is 1.0.
C9_Witness ==
    /\ pt.called
    /\ pt.pattern = "pulse"
    /\ pt.t = Rat(11, 2)
    /\ pt.ref = One
    /\ pt.jax = One

C11_ZeroAtEveryTime ==
    \A pattern \in UnknownPatterns, k \in 0..MaxTick :
        /\ perturbation(Rat(k - 10, TicksPerUnit), pattern) = Zero
        /\ get_perturbation_fn(pattern, Rat(k - 10, TicksPerUnit)) = Zero

\* C11, continued: a simulate() call with such a name over a valid span
\* runs to completion, and returns the trajectory of zero forcing: the one
\* the same call returns for any pattern on a model whose mu is 0.
C11_UnknownPatternZero ==
    /\ C11_ZeroAtEveryTime
    /\ (/\ pc = "idle"
        /\ ncalls > 0
        /\ call.u_pattern \in UnknownPatterns
        /\ call.n_points >= 1
        /\ ValidSpan(call)) =>
            /\ ret.status = "returned"
            /\ ret.states = FreshSimulate([p EXCEPT !.mu = Zero], solver,
                                          [call EXCEPT !.u_pattern = "pulse"]).states

\* C11 witness: a three-point run with the unknown name "none" has returned
\* over a span on which the pulse is active, so the same call with "pulse"
\* returns another trajectory.
C11_Witness ==
    /\ pc = "idle"
    /\ ret.status = "returned"
    /\ call.u_pattern = "none"
    /\ call.n_points = 3
    /\ ValidSpan(call)
    /\ ret.states # FreshSimulate(p, solver, [call EXCEPT !.u_pattern = "pulse"]).states

\* C12 (as claimed): an instance never has two simulate() calls in flight:
\* while one thread is integrating, a simulate() of another thread on the
\* same instance is refused.
C12_OneInFlight == ~(pc = "odeint" /\ other.pc = "odeint")

\* C17: save_trajectory writes the header row and then exactly one row per
\* time point, in order, row i holding the text of t[i] and of the 5 values
\* of states[i]; reading the rows back with csv.reader and float() yields
\* the time and state sequences that were saved.
C17_RoundTrip ==
    (file.called /\ Len(file.states) = Len(file.t)) =>
        /\ file.exc = ""
        /\ Len(file.rows) = Len(file.t) + 1
        /\ file.rows[1] = HeaderRow
        /\ reader_row(file.rows[1], <<>>) =
               << <<"time">>, <<"x_accessibility">>, <<"v_x">>, <<"y_repair">>,
                  <<"v_y">>, <<"theta_boundary">> >>
        /\ \A i \in 1..Len(file.t) :
              /\ Len(reader_row(file.rows[i + 1], <<>>)) = 6
              /\ reader_row(file.rows[i + 1], <<>>)[1] = str_float(file.t[i])
        /\ read_trajectory(file.rows) = [t |-> file.t, states |-> file.states]

\* C17 witness: a two-row trajectory with a negative time, a whole number
\* and 0.001 among its values has been saved as three lines.
C17_Witness ==
    /\ file.called
    /\ file.t = <<Rat(-5, 4), Rat(3, 1)>>
    /\ file.states[2][5] = Rat(1, 1000)
    /\ Len(file.rows) = 3
    /\ reader_row(file.rows[2], <<>>)[1] = <<"-", "1", ".", "2", "5">>
    /\ reader_row(file.rows[3], <<>>)[1] = <<"3", ".", "0">>
    /\ reader_row(file.rows[3], <<>>)[6] = <<"0", ".", "0", "0", "1">>

\* C13: the parameter set a model was constructed with is read-only: no
\* step of simulate, derivatives, perturbation, save_trajectory,
\* parameter_sweep or fit_to_data changes any of its fields, on the NumPy
\* model and on the JAX model.
C13_ParamsReadOnly == [][p' = p /\ jax_p' = jax_p]_vars

\* C13 witness: a simulate() has returned after direct derivatives calls,
\* its trajectory was saved, perturbation was called, and a sweep over
\* alpha has returned, with both parameter sets as constructed.
C13_Witness ==
    /\ ret.status = "returned"
    /\ ndirect > 0
    /\ pt.called
    /\ file.called /\ file.t = ret.t
    /\ jax_ret.op = "parameter_sweep"
    /\ jax_ret.args.param_name = "alpha"
    /\ jax_p = TORDParameters(Rat(1, 2), One)

\* C15: parameter_sweep returns exactly one trajectory per value of
\* param_range, in the order of param_range: entry i is the simulation with
\* param_name set to param_range[i] and every other parameter as the base
\* model's, and 'param_values' is the input sequence.
C15_SweepPerValue ==
    (jax_ret.op = "parameter_sweep" /\ jax_ret.args.param_name \in ParamFields) =>
        /\ jax_ret.exc = ""
        /\ jax_ret.val.param_values = jax_ret.args.param_range
        /\ Len(jax_ret.val.states_ensemble) = Len(jax_ret.args.param_range)
        /\ \A i \in 1..Len(jax_ret.args.param_range) :
              jax_ret.val.states_ensemble[i] =
                  jax_simulate([jax_p EXCEPT ![jax_ret.args.param_name] =
                                                jax_ret.args.param_range[i]],
                               jax_ret.args.t_span, jax_ret.args.n_points,
                               DefaultInitialState, "pulse").states

\* C16: a fit_to_data call with at least one iteration returns a parameter
\* set, and that set differs from initial_params whenever a field of the
\* computed gradient is non-zero.
C16_FitUpdates ==
    (jax_ret.op = "fit_to_data" /\ jax_ret.args.n_iterations > 0) =>
        /\ jax_ret.exc = ""
        /\ (\E f \in ParamFields : jax_ret.grads[f] # Zero) =>
               jax_ret.val # jax_ret.args.initial_params

\* C19 (as claimed): while a simulate() run over a valid time span is
\* integrating, the recorded history timestamps are strictly increasing.
C19_StrictlyIncreasing ==
    (pc = "odeint" /\ ValidSpan(call)) =>
        \A i \in 1..(Len(history_t) - 1) : RLt(history_t[i], history_t[i + 1])

\* C20: every simulate() call starts integrating with empty history lists:
\* while it integrates, the lists hold exactly one sample per callback
\* evaluation of this run, taken at a time of this run's grid and starting
\* with this run's initial x and y, so no sample recorded before the call is
\* there for a delayed lookup to return or interpolate.
C20_FreshHistory ==
    (pc = "odeint") =>
        /\ Len(history_t) = od.nevals
        /\ Len(history_x) = od.nevals
        /\ Len(history_y) = od.nevals
        /\ \A i \in 1..Len(history_t) :
              \E k \in 1..Len(od.t) : history_t[i] = od.t[k]
        /\ od.nevals >= 1 =>
              /\ history_t[1] = od.t[1]
              /\ history_x[1] = od.states[1][1]
              /\ history_y[1] = od.states[1][3]

\* C20 witness: the second simulate() of an instance, entered after a
\* direct derivatives call and with samples in the lists, is integrating
\* with a positive delay and has made at least two callback evaluations.
C20_Witness ==
    /\ pc = "odeint"
    /\ od.stale
    /\ ncalls = 2
    /\ ndirect > 0
    /\ od.nevals >= 2
    /\ RLt(Zero, p.eta)
    /\ ValidSpan(call)

\* C14: every preset call and every TORDParameters() call returns an object
\* no call returned before, whose fields at that moment are the dataclass
\* defaults except for the preset's named overrides (eta, beta, alpha for
\* uv_triage; kappa, lambda_, omega_x for engram and development; mu,
\* lambda_, gamma_y for hpa_stress), whatever presets were called and
\* whatever fields of returned sets were changed before.
C14_PresetsFresh ==
    \A i \in 1..Len(heap) :
        LET Overrides(src) ==
                IF src = "get_uv_triage_params" THEN {"eta", "beta", "alpha"}
                ELSE IF src \in {"get_engram_params", "get_development_params"}
                THEN {"kappa", "lambda_", "omega_x"}
                ELSE IF src = "get_hpa_stress_params"
                THEN {"mu", "lambda_", "gamma_y"}
                ELSE {}
        IN  /\ heap[i].returned = 1
            /\ \A f \in ParamFields \ Overrides(heap[i].src) :
                  heap[i].born[f] = DefaultParameters[f]
            /\ \A f \in Overrides(heap[i].src) :
                  heap[i].born[f] # DefaultParameters[f]
            /\ heap[i].src = "get_uv_triage_params" =>
                  /\ heap[i].born.eta = Rat(33, 100)
                  /\ heap[i].born.beta = Rat(3, 5)
                  /\ heap[i].born.alpha = Rat(2, 5)
            /\ heap[i].src = "get_engram_params" =>
                  /\ heap[i].born.kappa = Rat(3, 20)
                  /\ heap[i].born.lambda_ = Rat(1, 100)
            /\ heap[i].src = "get_hpa_stress_params" =>
                  /\ heap[i].born.mu = Rat(7, 20)
                  /\ heap[i].born.lambda_ = Rat(1, 25)
                  /\ heap[i].born.gamma_y = Rat(1, 5)
            /\ heap[i].src = "get_development_params" =>
                  /\ heap[i].born.kappa = Rat(1, 5)
                  /\ heap[i].born.lambda_ = Rat(1, 200)

\* C14 witness: get_uv_triage_params was called, kappa and eta of the set
\* it returned were changed, and a second call has returned a set with
\* the default kappa and the preset's eta.
C14_Witness ==
    /\ Len(heap) = 2
    /\ heap[1].src = "get_uv_triage_params"
    /\ heap[1].val.kappa = Zero
    /\ heap[1].val.eta = Zero
    /\ heap[2].src = "get_uv_triage_params"
    /\ heap[2].born.kappa = Rat(1, 20)
    /\ heap[2].born.eta = Rat(33, 100)

\* C18: for the pulse pattern over the span (5, 9) with five points,
\* changing only the delay eta changes the simulated x trajectory: the x
\* column a run returns differs from the x column the same call returns
\* under every other delay of EtaChoices, all other parameters equal.
C18_DelayEffect ==
    (ret.status = "returned" /\ call = DelayCall) =>
        \A e \in EtaChoices \ {p.eta} :
            LET Other(f) == f.exc = "" => XColumn(f.states) # XColumn(ret.states)
            IN  Other(FreshSimulate([p EXCEPT !.eta = e], solver, call))

\* C18 witness: the run with delay 1 has returned five rows and the run with
\* delay 0 returns too, with another x in the last row.
C18_Witness ==
    /\ ret.status = "returned"
    /\ call = DelayCall
    /\ solver = "euler"
    /\ p.eta = One
    /\ Len(ret.states) = 5
    /\ FreshSimulate([p EXCEPT !.eta = Zero], solver, call).exc = ""
    /\ FreshSimulate([p EXCEPT !.eta = Zero], solver, call).states[5][1]
           # ret.states[5][1]

\* C21 (as claimed): once simulate() has returned and no direct derivatives
\* call has been made, the instance holds no recorded sample.
C21_DiscardedAfterReturn ==
    (pc = "idle" /\ ret.status = "returned" /\ ndirect = 0) =>
        /\ history_t = <<>>
        /\ history_x = <<>>
        /\ history_y = <<>>

\* C22: a derivatives(state, t, pattern) call that returns, returns
\* [vx, -omega_x^2 x - gamma_x vx - alpha y_delayed + mu u(t), vy,
\*  -omega_y^2 y - gamma_y vy + beta x, kappa x^2 - lambda theta] with
\* y_delayed the lookup at t - eta in the history (the sample of this call
\* included) with fallback the current y; the first, third, fourth and
\* fifth components are the same under any delay, pattern and history.
C22_DerivativesFormula ==
    (dcall.called /\ dcall.exc = "") =>
        LET x == dcall.state[1]
            v_x == dcall.state[2]
            y == dcall.state[3]
            v_y == dcall.state[4]
            theta == dcall.state[5]
        IN  /\ dcall.y_delayed =
                   _get_delayed(RSub(dcall.t, p.eta), history_t, history_y, y).val
            /\ dcall.val[1] = v_x
            /\ dcall.val[2] =
                   RAdd(RSub(RSub(RNeg(RMul(RMul(p.omega_x, p.omega_x), x)),
                                  RMul(p.gamma_x, v_x)),
                             RMul(p.alpha, dcall.y_delayed)),
                        RMul(p.mu, perturbation(dcall.t, dcall.u_pattern)))
            /\ dcall.val[3] = v_y
            /\ dcall.val[4] =
                   RAdd(RSub(RNeg(RMul(RMul(p.omega_y, p.omega_y), y)),
                             RMul(p.gamma_y, v_y)),
                        RMul(p.beta, x))
            /\ dcall.val[5] = RSub(RMul(p.kappa, RMul(x, x)), RMul(p.lambda_, theta))
            /\ \A e \in EtaChoices, pat \in Patterns :
                  \E f \in {derivatives([p EXCEPT !.eta = e], <<>>, <<>>, <<>>,
                                         dcall.state, dcall.t, pat)} :
                      \A i \in {1, 3, 4, 5} : f.val[i] = dcall.val[i]

\* C22 witness: an evaluation during the pulse whose delayed value was
\* interpolated from two earlier samples and differs from the current y.
C22_Witness ==
    /\ dcall.called /\ dcall.exc = ""
    /\ ndirect = 3
    /\ dcall.t = Rat(5, 1)
    /\ dcall.u_pattern = "pulse"
    /\ p.eta = Rat(1, 2)
    /\ history_t = <<Rat(4, 1), Rat(5, 1), Rat(5, 1)>>
    /\ dcall.y_delayed = Rat(5, 1)
    /\ dcall.state[3] = Rat(3, 1)

\* C23: every evaluation of derivatives(state, t, pattern) appends exactly
\* the sample (t, x, y) of its arguments to the three history lists, which
\* stay equally long, makes its delayed lookup in the lists that already
\* hold that sample, and changes no parameter and nothing else of the model.
C23_AppendsOneSample ==
    [][ndirect' # ndirect =>
          /\ history_t' = Append(history_t, dcall'.t)
          /\ history_x' = Append(history_x, dcall'.state[1])
          /\ history_y' = Append(history_y, dcall'.state[3])
          /\ Len(history_t') = Len(history_x')
          /\ Len(history_x') = Len(history_y')
          /\ dcall'.exc = "" =>
                dcall'.y_delayed =
                    _get_delayed(RSub(dcall'.t, p.eta), history_t', history_y',
                                 dcall'.state[3]).val
          /\ p' = p
          /\ UNCHANGED <<solver, pc, call, od, ret, ncalls>>]_vars

\* C23 witness: with no delay, the second evaluation, at a later time and
\* with another y than the first, got its own y from the lookup: the sample
\* was in the lists when the lookup ran.
C23_Witness ==
    /\ ndirect = 2
    /\ p.eta = Zero
    /\ history_t = <<Rat(4, 1), Rat(5, 1)>>
    /\ history_y = <<Rat(7, 1), Rat(3, 1)>>
    /\ history_x = <<One, Zero>>
    /\ dcall.exc = ""
    /\ dcall.y_delayed = Rat(3, 1)

\* C25 (as claimed): with eta = 0, an evaluation that returns after
\* evaluations in non-decreasing time order used the current y as its
\* delayed value.
C25_ZeroDelayCurrentY ==
    (dcall.called /\ p.eta = Zero /\ NonDecreasing(history_t) /\ dcall.exc = "") =>
        dcall.y_delayed = dcall.state[3]

\* C24 (as claimed): whenever odeint is about to evaluate the callback at a
\* time t with t - eta earlier than the first time of the run, the delayed
\* value of that evaluation is the initial-condition y of the run.
C24_InitialYBeforeHistory ==
    (/\ pc = "odeint"
     /\ od.k < Len(od.t)
     /\ ValidSpan(call)
     /\ RLt(RSub(IF od.stage = 0 THEN od.t[od.k] ELSE od.t[od.k + 1], p.eta),
            od.t[1])) =>
        \E d \in {next_evaluation(p, call.u_pattern, history_t, history_x,
                                   history_y, od)} :
            /\ d.exc = ""
            /\ d.y_delayed = od.states[1][3]

\* C26: for a history of at least two samples with strictly increasing
\* timestamps and a query time from the first to the last recorded time,
\* _get_delayed returns, for every pair of consecutive samples that
\* brackets the query, the linear interpolation of their y-values at the
\* query time; the value lies between the two y-values and is the same
\* under every default.
C26_Interpolates ==
    (/\ gd.called
     /\ Len(gd.t_hist) >= 2
     /\ \A i \in 1..(Len(gd.t_hist) - 1) : RLt(gd.t_hist[i], gd.t_hist[i + 1])
     /\ RLe(gd.t_hist[1], gd.t_delay)
     /\ RLe(gd.t_delay, gd.t_hist[Len(gd.t_hist)])) =>
        /\ gd.res.exc = ""
        /\ \E i \in 1..(Len(gd.t_hist) - 1) :
              RLe(gd.t_hist[i], gd.t_delay) /\ RLe(gd.t_delay, gd.t_hist[i + 1])
        /\ \A i \in 1..(Len(gd.t_hist) - 1) :
              (RLe(gd.t_hist[i], gd.t_delay) /\ RLe(gd.t_delay, gd.t_hist[i + 1])) =>
                  /\ gd.res.val =
                         RAdd(gd.y_hist[i],
                              RMul(RDiv(RSub(gd.t_delay, gd.t_hist[i]),
                                        RSub(gd.t_hist[i + 1], gd.t_hist[i])),
                                   RSub(gd.y_hist[i + 1], gd.y_hist[i])))
                  /\ \/ RLe(gd.y_hist[i], gd.res.val) /\ RLe(gd.res.val, gd.y_hist[i + 1])
                     \/ RLe(gd.y_hist[i + 1], gd.res.val) /\ RLe(gd.res.val, gd.y_hist[i])
        /\ \A other_default \in YValues :
              _get_delayed(gd.t_delay, gd.t_hist, gd.y_hist, other_default) = gd.res

\* C26 witness: a lookup a quarter of the way between two samples with
\* different y-values, under a default that is not the value returned.
C26_Witness ==
    /\ gd.called
    /\ gd.t_hist = <<Zero, Rat(2, 1)>>
    /\ gd.y_hist = <<Zero, One>>
    /\ gd.t_delay = Rat(1, 2)
    /\ gd.default = One
    /\ gd.res = Returned(Rat(1, 4))

\* C27 (as claimed): a compute_boundary_stability(theta, window) call with
\* window >= 1 returns an array as long as theta whose entry i is
\* 1/(1 + std) of the slice the code takes at i, and that slice is
\* non-empty and contains index i.
C27_WindowContainsIndex ==
    (jax_ret.op = "compute_boundary_stability" /\ jax_ret.args.window # <<>>) =>
        /\ jax_ret.exc = ""
        /\ Len(jax_ret.val) = Len(jax_ret.args.theta)
        /\ jax_ret.val = compute_boundary_stability(jax_ret.args.theta,
                                                    jax_ret.args.window[1])
        /\ \A i \in 0..(Len(jax_ret.args.theta) - 1) :
              \E win \in {rolling_window(Len(jax_ret.args.theta), i,
                                         jax_ret.args.window[1])} :
                  win.start <= i /\ i < win.end

\* C28: for the state and time of any reference evaluation that returned,
\* derivatives_no_delay with get_perturbation_fn(pattern) equals the
\* reference vector whenever the reference's delayed value is the current
\* y, and equals it in the first, third, fourth and fifth component always;
\* the same holds against the reference on an empty history for every
\* pattern name, known or not; and neither derivatives_no_delay nor the
\* trajectory the JAX simulate integrates depends on eta.
C28_NoDelayRefines ==
    (dcall.called /\ dcall.exc = "") =>
        /\ \E j \in {derivatives_no_delay(p, dcall.state, dcall.t, dcall.u_pattern)} :
              /\ dcall.y_delayed = dcall.state[3] => j = dcall.val
              /\ \A i \in {1, 3, 4, 5} : j[i] = dcall.val[i]
        /\ \A pat \in Patterns :
              \E r \in {derivatives(p, <<>>, <<>>, <<>>, dcall.state, dcall.t, pat)} :
                  /\ r.exc = ""
                  /\ r.y_delayed = dcall.state[3]
                  /\ derivatives_no_delay(p, dcall.state, dcall.t, pat) = r.val
        /\ \A e \in EtaChoices :
              /\ derivatives_no_delay([p EXCEPT !.eta = e], dcall.state, dcall.t,
                                      dcall.u_pattern)
                    = derivatives_no_delay(p, dcall.state, dcall.t, dcall.u_pattern)
              /\ jax_simulate([p EXCEPT !.eta = e], <<Rat(5, 1), Rat(6, 1)>>, 3,
                              dcall.state, dcall.u_pattern)
                    = jax_simulate(p, <<Rat(5, 1), Rat(6, 1)>>, 3,
                                   dcall.state, dcall.u_pattern)
              /\ jit_simulate([p EXCEPT !.eta = e], <<Rat(5, 1), Rat(6, 1)>>, 3,
                              dcall.state, dcall.u_pattern)
                    = jit_simulate(p, <<Rat(5, 1), Rat(6, 1)>>, 3,
                                   dcall.state, dcall.u_pattern)

\* C28 witness: a reference evaluation inside the pulse, after an earlier
\* sample, whose delayed value is its current non-zero y.
C28_Witness ==
    /\ dcall.called /\ dcall.exc = ""
    /\ ndirect = 2
    /\ history_t = <<Rat(4, 1), Rat(5, 1)>>
    /\ dcall.u_pattern = "pulse"
    /\ dcall.state[3] = Rat(7, 1)
    /\ dcall.y_delayed = Rat(7, 1)
    /\ history_y[1] = Rat(3, 1)
    /\ derivatives_no_delay(p, dcall.state, dcall.t, dcall.u_pattern) = dcall.val

\* The audit events of one category among the events logged so far.
EventsOf(log, category) == {i \in DOMAIN log : log[i].category = category}

\* C29: current_phase starts as phase1_imprinting; it changes exactly in a
\* pass of the train_epoch loop that made an imprinting step and left
\* imprint_trainer.step >= phase_duration_steps, and then from
\* phase1_imprinting to phase2_capability, never back; over any sequence of
\* train_epoch calls _transition_to_phase2 has run at most once (once when
\* the phase is phase2_capability, never before), and every pass after it
\* is a standard training step that leaves the imprinting trainer alone.
C29_PhaseOnce ==
    [][/\ (~trainer.constructed /\ trainer'.constructed)
              => trainer'.current_phase = "phase1_imprinting"
       /\ trainer.constructed =>
            /\ trainer'.current_phase # trainer.current_phase
                  <=> /\ trainer'.nbatches # trainer.nbatches
                      /\ trainer'.last_step = "imprinting"
                      /\ trainer'.imprint_step >= trainer.phase_duration_steps
            /\ trainer'.current_phase # trainer.current_phase
                  => /\ trainer.current_phase = "phase1_imprinting"
                     /\ trainer'.current_phase = "phase2_capability"
            /\ Cardinality(EventsOf(trainer'.audit_log, "phase_transitions"))
                  = IF trainer'.current_phase = "phase2_capability" THEN 1 ELSE 0
            /\ (trainer.current_phase = "phase2_capability"
                  /\ trainer'.nbatches # trainer.nbatches)
                  => /\ trainer'.last_step = "standard"
                     /\ trainer'.imprint_step = trainer.imprint_step]_vars

\* C29 witness: the second train_epoch call has made a standard training
\* step after the first call left the imprinting phase in its second pass.
C29_Witness ==
    /\ trainer.current_phase = "phase2_capability"
    /\ trainer.nepochs = 2
    /\ trainer.last_step = "standard"
    /\ trainer.phase_duration_steps > 0
    /\ trainer.imprint_step >= trainer.phase_duration_steps
    /\ \E c \in trainer.checkpoints :
          /\ c.filename = Filename("phase1_complete.pt", <<>>, "")
          /\ c.global_step = 1
          /\ c.current_phase = "phase2_capability"
    /\ Cardinality(EventsOf(trainer.audit_log, "phase_transitions")) = 1
    /\ trainer.global_step > trainer.n_batches

\* C30: whenever check_drift reports CRITICAL_NEGATIVE_DRIFT in a pass at a
\* monitored step (global_step % 100 = 0), the last event logged is
\* FAILSAFE_TRIGGERED for that step, the checkpoint
\* FAILSAFE_step<global_step>.pt holding that step is among the files,
\* RuntimeError has left train_epoch, and global_step and the batch index
\* are what they were: no later batch of the call is processed.
C30_FailsafeHalts ==
    [][(/\ trainer'.nbatches # trainer.nbatches
        /\ trainer.global_step % MonitorPeriod = 0
        /\ trainer'.drift_status = "CRITICAL_NEGATIVE_DRIFT")
          => /\ Len(trainer'.audit_log) > Len(trainer.audit_log)
             /\ \E e \in {trainer'.audit_log[Len(trainer'.audit_log)]} :
                   /\ e.category = "drift_alerts"
                   /\ e.event = "FAILSAFE_TRIGGERED"
                   /\ e.step = trainer.global_step
             /\ \E c \in trainer'.checkpoints :
                   /\ c.filename
                        = Filename("FAILSAFE_step", <<trainer.global_step>>, ".pt")
                   /\ c.global_step = trainer.global_step
             /\ trainer'.exc = "RuntimeError"
             /\ trainer'.pc = "idle"
             /\ trainer'.global_step = trainer.global_step
             /\ trainer'.batch_idx = trainer.batch_idx]_vars

====
